---- MODULE Spec2Model ----
(***************************************************************************)
(* Outback SPC -> Venus OS bridge: acquisition and reconciliation engine.  *)
(*                                                                         *)
(* The repository holds two orchestrators over the same ideas:             *)
(*   - outback_venus.py (modular): BleOutbackClient + state_machine +      *)
(*     the main loop's forward counters, saved with save_state;            *)
(*   - blueProbe.py (single file): OutbackReader + PvForwardStore +        *)
(*     Bridge.tick.                                                        *)
(* Each part is modelled from its source and checked under its own         *)
(* specification.                                                          *)
(*                                                                         *)
(* Units: power in W, time in tenths of a second (ds), energy in W*ds.     *)
(* The link only ever compares the clock with _next_at and sets _next_at   *)
(* to the clock plus a delay, so the model keeps the time left,            *)
(* _next_at - now (what get_status reports as next_in_s), not both clocks. *)
(***************************************************************************)
EXTENDS Integers, Sequences, FiniteSets, TLC

\* ------------------------------------------------------------------ bounds
\* Powers are drawn in steps of 100 W: 0 .. MaxPowerSteps * 100.
MaxPowerSteps == 8
\* Rounds (connect/read exchanges) attempted in one behaviour.
MaxRounds == 5
\* Device words are drawn from 100 .. (MaxWordSteps - 1) * 100 and HighWord.
MaxWordSteps == 2
\* Orchestrator ticks that integrate the forward counters in one behaviour.
MaxTicks == 4
\* Local date changes in one behaviour.
MaxDays == 2
\* Solar power fed to the counters: 0 .. MaxPvSteps * 100 W.
MaxPvSteps == 2
\* Energies found in a state file at startup: 0 .. MaxStoredSteps * 1000 W*ds.
MaxStoredSteps == 2
\* Generator source power: 0 .. MaxGenSteps * 20 W.
MaxGenSteps == 10
\* Calls of TestMode.step in a run.
MaxSimSteps == 2
\* Ticks of the reconciliation pipeline in a run.
MaxPipeTicks == 3

\* --------------------------------------------------------- program constants
\* random.uniform(0.0, 0.2): jitter of 0 .. 0.2 s
JitterMax == 2
\* default min_interval_s = 1.8 s
MinIntervalDefault == 18
\* default backoff_max_s = 15 s
BackoffMaxDefault == 150
\* connect timeout 3.0 s, read timeout 1.5 s
ConnectTimeout == 30
ReadTimeout == 15
\* poll interval of the orchestrator: 1.0 s
PollInterval == 10
\* OutbackReader.read, hard failure: time.sleep(0.2), next round 1.5 s later
HardSleep == 2
HardRetryDelay == 15
\* words needed from the A03 block (a03[9]) and the A11 block (a11[7])
A03Words == 10
A11Words == 8
\* PvForwardStore.save_if_needed: at most one unforced save per 15 s
SaveDebounce == 150
\* round(x, 6) of a kWh value: steps of 1e-6 kWh = 3.6 W*s = 36 W*ds
RoundStep == 36
\* GeneratorService: start_w = 120 W, stop_w = 60 W, min_run_s = 8 s
GenStartDefault == 120
GenStopDefault == 60
GenMinRunDefault == 80
\* outback_venus.main: gen_thr_on = 200 W, gen_thr_off = gen_thr_on - 100 W,
\* gen_min_runtime_s = 7 s
GenThrOn == 200
GenThrGap == 100
GenMinRuntime == 70
\* voltage reported for a running generator
MainsVoltage == 230
\* classify_state: eps = 50 W
EpsDefault == 50
\* OutbackReader.SELF_CONS_W = 35 W, added below 5 W of PV
SELF_CONS_W == 35
NightPvThreshold == 5
\* Bridge.tick: RATE_W_PER_S = 700, EMA_ALPHA = 0.35 = 7/20
RATE_W_PER_S == 700
EmaNum == 7
EmaDen == 20
\* outback_venus.main: EMA(alpha=0.3) = 3/10
MainEmaNum == 3
MainEmaDen == 10

VARIABLES
    prog,          \* which orchestrator runs: "outback_venus" or "blueProbe"
    \* --- reconciliation (outback_venus.main and Bridge.tick)
    l1_power,      \* main: measured L1 AC power of this tick (W)
    batt_p,        \* main: signed battery power (+ charging, - discharging)
    pv_ac,         \* main: compute_pv_ac(l1_power, batt_p)
    L1_meas,       \* Bridge.tick: max(0, reader.acP_active)
    dcP,           \* Bridge.tick: signed battery power
    pv_ac_l1,      \* Bridge.tick: inline reconciliation formula
    \* --- environment of the device link
    elapsed,       \* time spent in the current orchestrator iteration (now - t_loop)
    lpc,           \* orchestrator position: "poll", "inflight", "sleep"
    workers,       \* _call_with_timeout threads abandoned after a timeout, still in their device call
    streak,        \* history: failed rounds since the last successful round
    min_interval_s,
    backoff_max_s,
    \* --- BleOutbackClient (modules/ble_client.py)
    ble_next_in,   \* max(0, self._next_at - now)
    ble_busy, ble_ok, ble_fail, ble_consec_fails,
    ble_client,    \* TRUE iff self._client is not None
    ble_backend,   \* "bleak", "bluepy" or "none"
    ble_last_status,
    snap,          \* value returned by the last snapshot() call
    \* --- OutbackReader (blueProbe.py)
    r_next_in,     \* max(0, self._next_round_at - now)
    r_busy, r_ok_count, r_fail_count, r_consec_fails, r_round_id,
    r_p,           \* TRUE iff self._p is not None
    r_last_status,
    r_ret,         \* value returned by the last read() call
    r_meas,        \* acV, acF, acS_apparent, acP_active, loadPct, dcV, dcI, pvV, pvP, pvI
    r_tainted,     \* history: the fields of r_meas whose value was written by a round that failed
    \* --- forward counters and their file (energy in W*ds)
    date,          \* the local calendar date (a day number)
    n_ticks,       \* ticks run so far
    spc,           \* position of the orchestrator: "tick", in a save at "open", "write", "replace",
                   \* "raised" (an exception ended main), "dead" (killed), "exited",
                   \* "exited_unflushed" (the final save failed) or "terminated" (SIGTERM
                   \* with no handler)
    total_kwh, day_kwh, day_date, dirty,   \* PvForwardStore
    since_save,    \* min(15 s, now - PvForwardStore._last_save)
    pv_forward_kwh, last_reset_ymd,        \* outback_venus.main
    forward_pub,   \* /Ac/Energy/Forward of the solar service
    files,         \* contents of the state file and of its temporary file
    save_new,      \* the contents the save in progress writes
    save_old,      \* history: the contents of the state file when the last save began
    force,         \* the save in progress is save_if_needed(force=True), at shutdown
    write_age,     \* history: min(15 s, time since the state file was last replaced)
    int_p, int_dt, \* history: power and dt of the last integration step
    \* --- generator controller (GeneratorService, outback_venus.main)
    gen_running,
    gen_since,     \* now - _last_change, saturating at GenAgeCap
    start_w, stop_w, min_run_s,
    gen_pt,        \* the passthrough argument of the last update
    gen_in,        \* the source power of the last update
    gen_pub,       \* what the generator service reports
    since_start,   \* history: time since the generator last went Off -> Running, saturating
    \* --- state classification (classify_state)
    cs_args,       \* the arguments of the last call
    sys_state,     \* its result
    \* --- battery readings of a tick (Bridge._read_bms, outback_venus.main)
    batt,          \* V, I, P, SOC of the tick, each with the source it came from
    batt_in,       \* the tick's circumstances: live or test mode, how far the monitor could be read
    tm_batt,       \* the battery model of the TestMode object
    tm_cfg,        \* its scenario and override flag, fixed at construction
    sim,           \* what its last step() returned
    sim_steps,     \* calls of step() so far
    sim_net,       \* history: loads minus PV and generator supply in its last step
    \* --- the tick pipeline (Bridge.tick, outback_venus.main)
    pipe_n,        \* ticks so far
    pipe_scale,    \* denominator of the smoothed values
    pipe_dt,       \* dt of the last tick, in 0.1 s
    ema_l1, ema_pv, ema_gen,   \* main: l1_power_s, pv_ac_s, gen_power_s
    bt_target,     \* Bridge.tick: batt_to_L1_target
    l1_prev,       \* Bridge._l1_prev, the ramped value
    l1_prev_ema,   \* Bridge._l1_prev_ema
    L1_multi,      \* the reported battery-facing L1 power
    tgt_hi,        \* history: the largest target so far
    pv_pub,        \* /Ac/L1/Power of the PV inverter service, over pipe_scale
    l1_pub,        \* L1 power of the inverter (VE.Bus) service, over pipe_scale
    main_live,     \* history: TestMode was off in every tick of main so far
    \* --- what the last round of the link did about a failure (history)
    ln_fail,       \* "none", or how this tick's round failed: "hard", "soft", "other"
    ln_act,        \* "keep": connection left as it was; "drop": disconnected;
                   \* "redo": disconnected and a reconnect attempted
    ln_softs,      \* soft failures in a row, this round included
    ln_conns,      \* connection attempts made by the last round
    ln_reads,      \* characteristic reads started by the last round
    ln_untimed,    \* its device calls that nothing cuts off
    \* --- the published services
    upd_idx        \* /UpdateIndex of each service

rcVars == <<l1_power, batt_p, pv_ac, L1_meas, dcP, pv_ac_l1>>

envVars == <<elapsed, lpc, workers, streak, min_interval_s, backoff_max_s>>

bleVars == <<ble_next_in, ble_busy, ble_ok, ble_fail, ble_consec_fails,
             ble_client, ble_backend, ble_last_status, snap>>

readerVars == <<r_next_in, r_busy, r_ok_count, r_fail_count, r_consec_fails,
                r_round_id, r_p, r_last_status, r_ret, r_meas, r_tainted>>

storeVars == <<date, n_ticks, spc, total_kwh, day_kwh, day_date, dirty, since_save,
               pv_forward_kwh, last_reset_ymd, forward_pub, files, save_new, save_old,
               force, write_age>>

genVars == <<gen_running, gen_since, start_w, stop_w, min_run_s, gen_pt, gen_in,
             gen_pub, since_start>>

csVars == <<cs_args, sys_state>>

battVars == <<batt, batt_in, tm_batt, tm_cfg, sim, sim_steps, sim_net>>

pipeVars == <<pipe_n, pipe_scale, pipe_dt, ema_l1, ema_pv, ema_gen, bt_target, l1_prev,
              l1_prev_ema, L1_multi, tgt_hi, pv_pub, l1_pub, main_live>>

idxVars == <<upd_idx>>

intVars == <<int_p, int_dt>>

lnVars == <<ln_fail, ln_act, ln_softs, ln_conns, ln_reads, ln_untimed>>

vars == <<prog, rcVars, envVars, bleVars, readerVars, storeVars, genVars, csVars, battVars,
          pipeVars, idxVars, lnVars, intVars>>

\* ------------------------------------------------------------ pure helpers
Max(a, b) == IF a >= b THEN a ELSE b
Min(a, b) == IF a <= b THEN a ELSE b
Abs(a) == IF a < 0 THEN -a ELSE a

\* state_machine.clamp: max(lo, min(hi, x))
clamp(x, lo, hi) == Max(lo, Min(hi, x))

\* blueProbe.clamp: lo if v < lo else hi if v > hi else v
clamp_bp(v, lo, hi) == IF v < lo THEN lo ELSE IF v > hi THEN hi ELSE v

\* a reconciliation that forgets the clamp (used to test the claims' formulas)
compute_pv_ac_unclamped(P_L1_out, P_batt) == P_L1_out - Max(0, -P_batt)

\* a reconciliation that subtracts the battery power whatever its sign
compute_pv_ac_signblind(P_L1_out, P_batt) ==
    clamp(P_L1_out - Abs(P_batt), 0, P_L1_out)

\* a reconciliation that counts the charging power as solar power on L1
compute_pv_ac_gross(P_L1_out, P_batt) == Max(0, P_L1_out + P_batt)

\* state_machine.compute_pv_ac
compute_pv_ac(P_L1_out, P_batt) ==
    clamp(P_L1_out - Max(0, -P_batt), 0, P_L1_out)

\* Bridge.tick, the inline formula
tick_pv_ac_l1(l1, p) == clamp_bp(l1 - Max(0, -p), 0, l1)

\* ------------------------------------------------------------ input sets
L1Values == { k * 100 : k \in 0..MaxPowerSteps }
BattValues == { k * 100 : k \in (-MaxPowerSteps)..MaxPowerSteps }


Programs == {"outback_venus", "blueProbe"}

\* before the first tick nothing has been measured
RcInit ==
    /\ l1_power = 0 /\ batt_p = 0 /\ pv_ac = 0
    /\ L1_meas = 0 /\ dcP = 0 /\ pv_ac_l1 = 0

\* ------------------------------------------------------------ device blocks
\* A raw characteristic value: nbytes bytes, every 16-bit word holding w
\* (the device sends the low byte of each word first).
MakeBlock(nbytes, w) ==
    [i \in 1..nbytes |-> IF i % 2 = 1 THEN w % 256 ELSE w \div 256]

\* struct.unpack('>' + 'h' * (len(buf)//2), buf) raises unless len(buf) is even
unpack_ok(buf) == Len(buf) % 2 = 0

\* a decode that keeps the sign of the 16-bit word
swap_decode_signed(buf) ==
    [i \in 1..(Len(buf) \div 2) |->
        LET u == buf[2 * i - 1] + buf[2 * i] * 256
        IN  IF u >= 32768 THEN u - 65536 ELSE u]

\* _swap_decode: signed big-endian shorts, then ((v >> 8) & 255) | ((v & 255) << 8)
swap_decode(buf) ==
    [i \in 1..(Len(buf) \div 2) |->
        LET u == buf[2 * i - 1] * 256 + buf[2 * i]
            v == IF u >= 32768 THEN u - 65536 ELSE u
        IN  ((v \div 256) % 256) + ((v % 256) * 256)]

\* a[k] of a Python tuple (0-based); only used where k < len(a)
Word(a, k) == a[k + 1]

\* a word whose two bytes both have the top bit set (0xFF9C)
HighWord == 65436
WordValues == { k * 100 : k \in 1..(MaxWordSteps - 1) } \cup {HighWord}
\* lengths the device may answer with: complete, too short, odd
A03Lengths == {2 * A03Words, 12, 19}
A11Lengths == {2 * A11Words, 14}
A03Blocks == { MakeBlock(n, w) : n \in A03Lengths, w \in WordValues }
A11Blocks == { MakeBlock(n, w) : n \in A11Lengths, w \in WordValues }

\* ------------------------------------------------------------ backoff ladder
Ladder == <<10, 20, 40, 80, 120>>

\* _schedule_next, the delay before the jitter: min_interval_s on success,
\* min(ladder[min(max(consec - 1, 0), len(ladder) - 1)], backoff_max) otherwise
schedule_delay(success, consec, mi, bmax) ==
    IF success
      THEN mi
      ELSE Min(Ladder[Min(Max(consec - 1, 0), Len(Ladder) - 1) + 1], bmax)

\* _schedule_next, the counter: a success resets _consec_fails
schedule_consec(success, consec) == IF success THEN 0 ELSE consec

Jitter == 0..JitterMax

\* a link that never throttles
throttled_never(next_in) == FALSE

\* snapshot(), line 232 and read(), line 449: now < _next_at, time is left
throttled(next_in) == next_in > 0
BackoffMaxChoices == {30, BackoffMaxDefault}

\* ------------------------------------------------------------ BleOutbackClient
NoSnap == [some |-> FALSE, power_w |-> 0, state |-> 0, pv_w |-> 0,
           ac_v |-> 0, dc_v |-> 0, dc_i |-> 0]

STATE_OFF == 0
STATE_INVERT == 1
STATE_CHARGE == 2
STATE_PASSTHROUGH == 3

Outcomes == {"ok", "timeout", "error"}

\* BleOutbackClient.__init__
BleConstructed ==
    /\ ble_next_in = 0 /\ ble_busy = FALSE
    /\ ble_ok = 0 /\ ble_fail = 0 /\ ble_consec_fails = 0
    /\ ble_client = FALSE
    /\ ble_last_status = "init"
    /\ snap = NoSnap

\* OutbackReader before its constructor has run (the other program runs)
ReaderUnused ==
    /\ r_next_in = 0 /\ r_busy = FALSE
    /\ r_ok_count = 0 /\ r_fail_count = 0 /\ r_consec_fails = 0 /\ r_round_id = 0
    /\ r_p = FALSE /\ r_last_status = "n/a" /\ r_ret = "none"
    /\ r_meas = [acV |-> 2300, acF |-> 500, acS_apparent |-> 0, acP_active |-> 0,
                 loadPct |-> 0, dcV |-> 2660, dcI |-> 0, pvV |-> 0, pvP |-> 0, pvI |-> 0]
    /\ r_tainted = {}

EnvStart ==
    /\ elapsed = 0 /\ lpc = "poll" /\ workers = 0 /\ streak = 0
    /\ ln_fail = "none" /\ ln_act = "none" /\ ln_softs = 0
    /\ ln_conns = 0 /\ ln_reads = 0 /\ ln_untimed = 0

\* the link as constructed with default settings and not yet polled
LinkConstructed ==
    /\ EnvStart
    /\ min_interval_s = MinIntervalDefault /\ backoff_max_s = BackoffMaxDefault
    /\ BleConstructed /\ ble_backend = "bleak"
    /\ ReaderUnused

\* What the device does in one round: the exchange stops at the connect
\* ("conn"), at the first or second read ("rd1", "rd2") with a fate other
\* than "ok", or both blocks arrive ("data") and are raw03 and raw11.
NoBlock == <<>>
Scenarios(fates) ==
    { [stage |-> st, fate |-> f, raw03 |-> NoBlock, raw11 |-> NoBlock] :
          st \in {"conn", "rd1", "rd2"}, f \in fates \ {"ok"} }
    \cup { [stage |-> "data", fate |-> "ok", raw03 |-> b03, raw11 |-> b11] :
          b03 \in A03Blocks, b11 \in A11Blocks }

\* What one round of snapshot() does, lines 246-325, in scenario sc.
\* kind: "ok", "timeout" or "error"; dur: the time the round took;
\* left: threads that _call_with_timeout abandoned in their device call.
BleRound(sc) ==
    LET thr  == ble_backend = "bluepy"
        fin(k, d, t) == [kind |-> k, dur |-> d, left |-> IF thr /\ t THEN 1 ELSE 0]
        late == sc.fate = "timeout"
    IN  IF sc.stage = "conn"
          THEN fin(sc.fate, IF late THEN ConnectTimeout ELSE 1, late)
        ELSE IF ble_backend = "none"
          THEN fin("error", 1, FALSE)
        ELSE IF sc.stage = "rd1"
          THEN fin(sc.fate, IF late THEN ReadTimeout ELSE 1, late)
        ELSE IF sc.stage = "rd2"
          THEN fin(sc.fate, IF late THEN 1 + ReadTimeout ELSE 2, late)
        ELSE IF ~(unpack_ok(sc.raw03) /\ unpack_ok(sc.raw11))
          THEN fin("error", 2, FALSE)
        ELSE IF Len(swap_decode(sc.raw03)) < A03Words \/ Len(swap_decode(sc.raw11)) < A11Words
          THEN fin("error", 2, FALSE)
        ELSE fin("ok", 2, FALSE)

\* the dict returned by a successful round, lines 295-304 (ac_v in 0.1 V,
\* dc_v in 0.01 V)
BleSnapshotDict(raw03, raw11) ==
    LET a03 == swap_decode(raw03)
        a11 == swap_decode(raw11)
    IN  [some |-> TRUE,
         power_w |-> Max(0, Word(a03, 5)),
         state |-> STATE_INVERT,
         pv_w |-> Max(0, Word(a11, 7)),
         ac_v |-> Max(0, Word(a03, 2)),
         dc_v |-> Max(0, Word(a03, 8)),
         dc_i |-> Word(a03, 9)]

\* snapshot(), lines 231-238: called before _next_at
SnapshotThrottled ==
    /\ prog = "outback_venus" /\ lpc = "poll"
    /\ ble_ok + ble_fail < MaxRounds
    /\ throttled(ble_next_in)
    /\ ble_last_status' = "throttle"
    /\ snap' = NoSnap
    /\ lpc' = "sleep"
    /\ UNCHANGED <<ble_next_in, ble_busy, ble_ok, ble_fail, ble_consec_fails,
                   ble_client, ble_backend>>
    /\ UNCHANGED <<prog, intVars, lnVars, idxVars, pipeVars, battVars, csVars, genVars, storeVars, rcVars, readerVars, elapsed, workers, streak,
                   min_interval_s, backoff_max_s>>

\* snapshot(), lines 240-246: the busy guard, then the round starts
SnapshotBegin ==
    /\ prog = "outback_venus" /\ lpc = "poll"
    /\ ble_ok + ble_fail < MaxRounds
    /\ ~throttled(ble_next_in)
    /\ IF ble_busy
         THEN /\ ble_last_status' = "busy"
              /\ snap' = NoSnap
              /\ lpc' = "sleep"
              /\ UNCHANGED ble_busy
         ELSE /\ ble_busy' = TRUE
              /\ lpc' = "inflight"
              /\ UNCHANGED <<ble_last_status, snap>>
    /\ UNCHANGED <<ble_next_in, ble_ok, ble_fail, ble_consec_fails, ble_client, ble_backend>>
    /\ UNCHANGED <<prog, intVars, lnVars, idxVars, pipeVars, battVars, csVars, genVars, storeVars, rcVars, readerVars, elapsed, workers, streak,
                   min_interval_s, backoff_max_s>>

\* the characteristic reads a round starts before it stops: A03 first, then A11
ReadsStarted(sc) == IF sc.stage = "conn" THEN 0 ELSE IF sc.stage = "rd1" THEN 1 ELSE 2

\* how a failed round of snapshot() failed: the peer was not reached (the
\* connect), or a read or its decoding went wrong
BleFailKind(sc) == IF sc.stage = "conn" THEN "hard" ELSE "soft"

\* snapshot(), lines 247-327: the round itself, up to the return
SnapshotEnd ==
    /\ prog = "outback_venus" /\ lpc = "inflight"
    /\ \E sc \in Scenarios(Outcomes), j \in Jitter :
          \* the connect is only attempted without a client, lines 249-256
          /\ sc.stage = "conn" => ((~ble_client) /\ ble_backend \in {"bleak", "bluepy"})
          /\ LET r == BleRound(sc)
              IN
              /\ elapsed' = elapsed + r.dur
              /\ workers' = workers + r.left
              /\ IF r.kind = "ok"
                   THEN /\ ble_ok' = ble_ok + 1
                        /\ ble_consec_fails' = schedule_consec(TRUE, ble_consec_fails)
                        /\ ble_next_in' = schedule_delay(TRUE, ble_consec_fails, min_interval_s, backoff_max_s) + j
                        /\ ble_client' = TRUE
                        /\ ble_last_status' = "ok"
                        /\ snap' = BleSnapshotDict(sc.raw03, sc.raw11)
                        /\ streak' = 0
                        /\ ln_fail' = "none" /\ ln_act' = "none" /\ ln_softs' = 0
                        /\ UNCHANGED ble_fail
                   ELSE /\ ble_fail' = ble_fail + 1
                        /\ ble_consec_fails' = schedule_consec(FALSE, ble_consec_fails + 1)
                        /\ ble_last_status' = r.kind
                        /\ ble_client' = FALSE
                        /\ ble_next_in' = schedule_delay(FALSE, ble_consec_fails + 1, min_interval_s, backoff_max_s) + j
                        /\ snap' = NoSnap
                        /\ streak' = streak + 1
                        \* lines 306-325: both handlers disconnect, whatever failed
                        /\ ln_fail' = BleFailKind(sc)
                        /\ ln_act' = "drop"
                        /\ ln_softs' = (IF BleFailKind(sc) = "soft" THEN ln_softs + 1 ELSE 0)
                        /\ UNCHANGED ble_ok
              \* lines 249-262: one connect without a client, then the pair of
              \* reads, every one under wait_for or _call_with_timeout; lines
              \* 221-225: _bluepy_disconnect calls disconnect() as it is
              /\ ln_conns' = (IF ~ble_client /\ ble_backend \in {"bleak", "bluepy"} THEN 1 ELSE 0)
              /\ ln_reads' = (IF ble_backend = "none" THEN 0 ELSE ReadsStarted(sc))
              /\ ln_untimed' = (IF r.kind # "ok" /\ ble_backend = "bluepy" /\ sc.stage # "conn"
                                 THEN 1 ELSE 0)
    /\ ble_busy' = FALSE
    /\ lpc' = "sleep"
    /\ UNCHANGED <<prog, intVars, idxVars, pipeVars, battVars, csVars, genVars, storeVars, rcVars, readerVars, ble_backend, min_interval_s, backoff_max_s>>

\* a thread abandoned by _call_with_timeout comes back from its device call
WorkerReturns ==
    /\ workers > 0
    /\ workers' = workers - 1
    /\ UNCHANGED <<prog, intVars, lnVars, idxVars, pipeVars, battVars, csVars, genVars, storeVars, rcVars, bleVars, readerVars, elapsed, lpc, streak,
                   min_interval_s, backoff_max_s>>

\* time dt passes: what is left of a waiting time x
Pass(x, dt) == Max(0, x - dt)

\* outback_venus.main, lines 620-623 (GLib.timeout_add in blueProbe): the
\* orchestrator sleeps for what is left of the poll interval, if anything
LoopSleep ==
    /\ lpc = "sleep"
    /\ LET dt == Max(0, PollInterval - elapsed)
       IN  /\ ble_next_in' = Pass(ble_next_in, dt)
           /\ r_next_in' = Pass(r_next_in, dt)
    /\ elapsed' = 0
    /\ lpc' = "poll"
    \* the record of the tick's poll ends with the tick
    /\ ln_fail' = "none" /\ ln_act' = "none"
    /\ ln_conns' = 0 /\ ln_reads' = 0 /\ ln_untimed' = 0
    /\ UNCHANGED ln_softs
    /\ UNCHANGED <<prog, intVars, idxVars, pipeVars, battVars, csVars, genVars, storeVars, rcVars, workers, streak, min_interval_s, backoff_max_s>>
    /\ UNCHANGED <<ble_busy, ble_ok, ble_fail, ble_consec_fails, ble_client,
                   ble_backend, ble_last_status, snap>>
    /\ UNCHANGED <<r_busy, r_ok_count, r_fail_count, r_consec_fails, r_round_id,
                   r_p, r_last_status, r_ret, r_meas, r_tainted>>

\* ------------------------------------------------------------ OutbackReader
\* fates of a bluepy call in OutbackReader: "soft" and "hard" are BTLEExceptions
\* (hard: "Helper not started", "Not connected", "Device disconnected"),
\* "other" any other exception
Fates == {"ok", "soft", "hard", "other"}

\* OutbackReader.__init__, live: _connect() then _schedule_next
ReaderConstructed ==
    /\ r_busy = FALSE
    /\ r_ok_count = 0 /\ r_fail_count = 0 /\ r_consec_fails = 0 /\ r_round_id = 0
    /\ r_p \in BOOLEAN
    /\ \E j \in Jitter :
          r_next_in = schedule_delay(r_p, 0, min_interval_s, backoff_max_s) + j
    /\ r_last_status = "n/a" /\ r_ret = "none"
    /\ r_meas = [acV |-> 2300, acF |-> 500, acS_apparent |-> 0, acP_active |-> 0,
                 loadPct |-> 0, dcV |-> 2660, dcI |-> 0, pvV |-> 0, pvP |-> 0, pvI |-> 0]
    /\ r_tainted = {}

\* read(), lines 449-455: called before _next_round_at
ReaderThrottled ==
    /\ prog = "blueProbe" /\ lpc = "poll"
    /\ r_round_id < MaxRounds
    /\ ~r_busy
    /\ throttled(r_next_in)
    /\ r_last_status' = "throttle"
    /\ r_ret' = "True"
    /\ lpc' = "sleep"
    /\ UNCHANGED <<r_next_in, r_busy, r_ok_count, r_fail_count, r_consec_fails,
                   r_round_id, r_p, r_meas, r_tainted>>
    /\ UNCHANGED <<prog, intVars, lnVars, idxVars, pipeVars, battVars, csVars, genVars, storeVars, rcVars, bleVars, elapsed, workers, streak,
                   min_interval_s, backoff_max_s>>

\* The field assignments of lines 463-466 run one after the other; an index
\* past the end of a block raises and leaves the earlier ones done.
\* AssignedFields: the fields written when the blocks hold n03 and n11 words.
AssignedFields(n03, n11) ==
    (IF n03 >= 3 THEN {"acV"} ELSE {})
    \cup (IF n03 >= 4 THEN {"acF"} ELSE {})
    \cup (IF n03 >= 5 THEN {"acS_apparent"} ELSE {})
    \cup (IF n03 >= 6 THEN {"acP_active"} ELSE {})
    \cup (IF n03 >= 7 THEN {"loadPct"} ELSE {})
    \cup (IF n03 >= 9 THEN {"dcV"} ELSE {})
    \cup (IF n03 >= 10 THEN {"dcI"} ELSE {})
    \cup (IF n03 >= 10 /\ n11 >= 7 THEN {"pvV"} ELSE {})
    \cup (IF n03 >= 10 /\ n11 >= 8 THEN {"pvP", "pvI"} ELSE {})

\* the value lines 463-466 give field f (acV, acF, pvV in 0.1 units, dcV in 0.01 V)
FieldValue(f, a03, a11) ==
    CASE f = "acV" -> Word(a03, 2)
      [] f = "acF" -> Word(a03, 3)
      [] f = "acS_apparent" -> Word(a03, 4)
      [] f = "acP_active" -> Word(a03, 5)
      [] f = "loadPct" -> Word(a03, 6)
      [] f = "dcV" -> Word(a03, 8)
      [] f = "dcI" -> Word(a03, 9)
      [] f = "pvV" -> Word(a11, 6)
      [] f = "pvP" -> Word(a11, 7)
      [] f = "pvI" -> IF Word(a11, 6) = 0 THEN 0 ELSE (Word(a11, 7) * 10) \div Word(a11, 6)

\* The try block of read(), lines 459-476, in scenario sc: where it stops
\* and what it has done by then.  kind: "ok", or the fate that raised
\* ("soft", "hard", "other"); connected: _connect() ran and succeeded;
\* wrote: the fields assigned.
ReaderTry(sc) ==
    LET conned == (~r_p) /\ sc.stage # "conn"
        fin(k, d, w) == [kind |-> k, dur |-> d, connected |-> conned, wrote |-> w]
    IN  IF sc.stage = "conn" THEN fin(sc.fate, 1, {})
        ELSE IF sc.stage = "rd1" THEN fin(sc.fate, 1, {})
        ELSE IF sc.stage = "rd2" THEN fin(sc.fate, 2, {})
        ELSE IF ~(unpack_ok(sc.raw03) /\ unpack_ok(sc.raw11)) THEN fin("other", 2, {})
        ELSE LET w == AssignedFields(Len(swap_decode(sc.raw03)), Len(swap_decode(sc.raw11)))
             IN  IF w = DOMAIN r_meas THEN fin("ok", 2, w) ELSE fin("other", 2, w)

\* read(), lines 457-500: one round, from the busy flag to the return
ReaderRound ==
    /\ prog = "blueProbe" /\ lpc = "poll"
    /\ r_round_id < MaxRounds
    /\ ~r_busy
    /\ ~throttled(r_next_in)
    /\ \E sc \in Scenarios(Fates), reconn \in BOOLEAN, j \in Jitter :
          \* _connect() is only called without a peripheral, line 459
          /\ sc.stage = "conn" => ~r_p
          /\ LET r   == ReaderTry(sc)
                  rid == r_round_id + 1
                  a03 == swap_decode(sc.raw03)
                  a11 == swap_decode(sc.raw11)
                  c0  == IF r.connected THEN 0 ELSE r_consec_fails
                  p0  == r_p \/ r.connected
                  c1  == c0 + 1
                  \* the handlers reconnect after a hard failure, and after the
                  \* second soft failure in a row
                  redo == r.kind = "hard" \/ (r.kind = "soft" /\ c1 >= 2)
                  c2  == IF redo /\ reconn THEN 0 ELSE c1
              IN  /\ r_round_id' = rid
                  /\ r_meas' = [f \in DOMAIN r_meas |->
                                  IF f \in r.wrote THEN FieldValue(f, a03, a11) ELSE r_meas[f]]
                  /\ r_tainted' = IF r.kind = "ok" THEN r_tainted \ r.wrote
                                                     ELSE r_tainted \cup r.wrote
                  /\ IF r.kind = "ok"
                       THEN /\ r_ok_count' = r_ok_count + 1
                            /\ r_consec_fails' = schedule_consec(TRUE, c0)
                            /\ elapsed' = elapsed + r.dur
                            /\ r_next_in' =
                                  schedule_delay(TRUE, c0, min_interval_s, backoff_max_s) + j
                            /\ r_p' = p0
                            /\ r_last_status' = "ok"
                            /\ r_ret' = "True"
                            /\ streak' = 0
                            /\ ln_fail' = "none" /\ ln_act' = "none" /\ ln_softs' = 0
                            /\ UNCHANGED r_fail_count
                       ELSE /\ r_fail_count' = r_fail_count + 1
                            /\ r_last_status' = "exc"
                            /\ r_ret' = "False"
                            /\ streak' = streak + 1
                            /\ ln_fail' = r.kind
                            /\ ln_act' = (IF redo THEN "redo" ELSE "keep")
                            /\ ln_softs' = (IF r.kind = "soft" THEN ln_softs + 1 ELSE 0)
                            /\ UNCHANGED r_ok_count
                            /\ IF r.kind = "hard"
                                 THEN /\ r_p' = reconn
                                      /\ r_consec_fails' = c2
                                      /\ elapsed' = elapsed + r.dur + HardSleep
                                      /\ r_next_in' = HardRetryDelay
                                 ELSE IF r.kind = "soft"
                                 THEN /\ r_p' = (IF redo THEN reconn ELSE p0)
                                      /\ r_consec_fails' = schedule_consec(FALSE, c2)
                                      /\ elapsed' = elapsed + r.dur
                                      /\ r_next_in' =
                                            schedule_delay(FALSE, c2, min_interval_s, backoff_max_s) + j
                                 ELSE /\ r_p' = p0
                                      /\ r_consec_fails' = schedule_consec(FALSE, c1)
                                      /\ elapsed' = elapsed + r.dur
                                      /\ r_next_in' =
                                            schedule_delay(FALSE, c1, min_interval_s, backoff_max_s) + j
                  \* line 459 connects without a peripheral, lines 482-484 and
                  \* 488-491 disconnect and connect again; Peripheral(), read()
                  \* and disconnect() are called as they are, with no timeout
                  /\ LET first == IF ~r_p THEN 1 ELSE 0
                          again == IF r.kind # "ok" /\ redo THEN 1 ELSE 0
                          discs == IF r.kind # "ok" /\ redo /\ p0 THEN 1 ELSE 0
                      IN  /\ ln_conns' = first + again
                          /\ ln_reads' = ReadsStarted(sc)
                          /\ ln_untimed' = first + again + discs + ReadsStarted(sc)
    /\ r_busy' = FALSE
    /\ lpc' = "sleep"
    /\ UNCHANGED <<prog, intVars, idxVars, pipeVars, battVars, csVars, genVars, storeVars, rcVars, bleVars, workers, min_interval_s, backoff_max_s>>

\* ------------------------------------------------------------ battery source
\* voltage in V, power in W, current in mA, state of charge in 1e-6 %
Amp(n) == n * 1000
Pct(n) == n * 1000000

\* a quantity and where it came from
From(src, val) == [src |-> src, val |-> val]
Unset == From("none", 0)

\* what the battery monitor, the device and the simulation may report
MonReadings == { [V |-> 52, I |-> Amp(5), P |-> 260, SOC |-> Pct(90)],
                 [V |-> 48, I |-> Amp(-10), P |-> -480, SOC |-> Pct(40)] }
DevReadings == { [V |-> 51, I |-> Amp(4)], [V |-> 47, I |-> Amp(-8)] }
\* battery power in the device snapshot
SnapBattPowers == {-300, 0}
\* Settings/Devices/OutbackSPC/Test/DCV, DCI, DCP, SOC where set
TestOverride == [V |-> 50, I |-> Amp(2), P |-> 100, SOC |-> Pct(60)]
BattFields == {"V", "I", "P", "SOC"}

\* TestMode.__init__: soc 75, voltage 52, current 0, power 0
TmDefaults == [V |-> 52, I |-> 0, P |-> 0, SOC |-> Pct(75)]

\* how far the monitor can be read: 0 no monitor service, k in 1..4 the
\* k-th get_value() raises, 5 all four values read
MonitorCases == 0..5

\* the product of two sourced quantities
derived(v, i) ==
    From(IF v.src = i.src THEN v.src ELSE "mixed", (v.val * i.val) \div 1000)

\* Bridge._read_bms: the four monitor reads in one try, else the device's
\* dcV and dcI, their product, and no state of charge
read_bms(mcase, mon, dev) ==
    IF mcase = 5
      THEN [V |-> From("monitor", mon.V), I |-> From("monitor", mon.I),
            P |-> From("monitor", mon.P), SOC |-> From("monitor", mon.SOC)]
      ELSE [V |-> From("device", dev.V), I |-> From("device", dev.I),
            P |-> From("device", (dev.V * dev.I) \div 1000), SOC |-> Unset]

\* Bridge.tick, lines 911-917: in test mode override/custom each value is
\* taken from its setting where set; dcP defaults to dcV*dcI, soc to 50
test_override(b, set) ==
    LET v == IF "V" \in set THEN From("override", TestOverride.V) ELSE b.V
        i == IF "I" \in set THEN From("override", TestOverride.I) ELSE b.I
    IN  [V |-> v, I |-> i,
         P |-> IF "P" \in set THEN From("override", TestOverride.P) ELSE derived(v, i),
         SOC |-> IF "SOC" \in set THEN From("override", TestOverride.SOC)
                 ELSE IF b.SOC.src = "none" THEN From("default", Pct(50)) ELSE b.SOC]

\* BatteryDbusReader.read: the four values or None
batt_reader_read(mcase) == mcase = 5

\* outback_venus.main, lines 478-498: batt_p from the snapshot, then all
\* four values from the monitor or else from the TestMode battery model
main_battery(mcase, mon, snap_p, tm) ==
    IF batt_reader_read(mcase)
      THEN [V |-> From("monitor", mon.V), I |-> From("monitor", mon.I),
            P |-> From("monitor", mon.P), SOC |-> From("monitor", mon.SOC)]
      ELSE [V |-> From("model", tm.V), I |-> From("model", tm.I),
            P |-> From("model", tm.P), SOC |-> From("model", tm.SOC)]

\* ---- TestMode
\* a setting that is not set
NoSetting == -1
setting(v, default) == IF v = NoSetting THEN default ELSE v

Scenarios7 == {"off", "night", "day", "day_plus_batt", "day_surplus", "gen", "custom"}
TmConfigs == [scenario : Scenarios7, override : BOOLEAN]

\* /Settings/Test/L1, L2, L3, PV_AC, PV_DC, GenPower, Battery/Power as a
\* step may find them
SimSettings ==
    [L1 : {0, 400}, L2 : {0, 100}, L3 : {0}, PV_AC : {NoSetting, 300},
     PV_DC : {0, 1000}, GEN : {NoSetting, 1200}, BATT_P : {-400, -100}]
\* the loop's 1 s cadence
SimDt == {10}

\* x / y rounded towards zero
trunc_div(x, y) == IF x >= 0 THEN x \div y ELSE -((-x) \div y)

\* TestMode._scenario_values
scenario_values(sc, st) ==
    LET L1 == st.L1
        PV_AC == setting(st.PV_AC, 300)
        GEN == setting(st.GEN, 0)
        v == [L1 |-> L1, L2 |-> st.L2, L3 |-> st.L3, PV_AC |-> PV_AC,
              PV_DC |-> st.PV_DC, GEN |-> GEN]
    IN  CASE sc = "night" -> [v EXCEPT !.PV_AC = 0, !.GEN = 0]
          [] sc = "day" -> [v EXCEPT !.PV_AC = L1, !.GEN = 0]
          [] sc = "day_plus_batt" ->
                [v EXCEPT !.PV_AC = IF st.PV_AC = NoSetting THEN 500 ELSE PV_AC, !.GEN = 0]
          [] sc = "day_surplus" ->
                [v EXCEPT !.PV_AC = IF st.PV_AC = NoSetting THEN 600 ELSE PV_AC, !.GEN = 0]
          [] sc = "gen" ->
                [v EXCEPT !.PV_AC = IF st.PV_AC = NoSetting THEN 500 ELSE PV_AC,
                          !.GEN = IF st.GEN = NoSetting THEN 1200 ELSE GEN]
          [] OTHER -> v

\* TestMode._auto_battery: P_batt = loads - (PV_ac + PV_dc + Gen), the state
\* of charge moved by -dWh / 5000 Wh (1/0.97 of it when P_batt >= 0), the
\* current P_batt / max(1, voltage)
auto_battery(tm, dt, loads_w, pv_ac_, pv_dc, gen_w) ==
    LET bp == loads_w - (pv_ac_ + pv_dc + gen_w)
        d_soc == IF bp < 0 THEN trunc_div(bp * dt * 5, 9)
                 ELSE trunc_div(bp * dt * 500, 9 * 97)
    IN  [tm EXCEPT !.SOC = clamp(tm.SOC - d_soc, 0, Pct(100)),
                   !.P = bp,
                   !.I = trunc_div(bp * 1000, Max(1, tm.V))]

\* TestMode.step: the new battery model and the returned values
tm_step(tm, cfg, st, dt) ==
    LET v == scenario_values(cfg.scenario, st)
        loads == v.L1 + v.L2 + v.L3
        tm2 == IF cfg.override THEN [tm EXCEPT !.P = st.BATT_P]
               ELSE auto_battery(tm, dt, loads, v.PV_AC, v.PV_DC, v.GEN)
    IN  [tm |-> tm2,
         out |-> [L1 |-> v.L1, L2 |-> v.L2, L3 |-> v.L3,
                  PV_AC |-> compute_pv_ac(v.L1, tm2.P), PV_DC |-> v.PV_DC, GEN |-> v.GEN,
                  BATT_V |-> tm2.V, BATT_I |-> tm2.I, BATT_P |-> tm2.P, BATT_SOC |-> tm2.SOC,
                  OUTBACK_STATE |-> IF cfg.scenario = "gen" /\ v.GEN > 0
                                      THEN STATE_PASSTHROUGH ELSE STATE_INVERT]]

\* TestMode.step: the loads and the supply its battery model is given
step_net(cfg, st) ==
    LET v == scenario_values(cfg.scenario, st)
    IN  (v.L1 + v.L2 + v.L3) - (v.PV_AC + v.PV_DC + v.GEN)

\* no step yet
NoSim == [L1 |-> 0, L2 |-> 0, L3 |-> 0, PV_AC |-> 0, PV_DC |-> 0, GEN |-> 0,
          BATT_V |-> 0, BATT_I |-> 0, BATT_P |-> 0, BATT_SOC |-> 0,
          OUTBACK_STATE |-> STATE_INVERT]

\* --testmode off
TmOff == tm_cfg = [scenario |-> "off", override |-> FALSE]

BattConstructed ==
    /\ batt = [V |-> Unset, I |-> Unset, P |-> Unset, SOC |-> Unset]
    /\ batt_in = [live |-> TRUE, monitor |-> 0, ticked |-> FALSE]
    /\ tm_batt = TmDefaults
    /\ sim = NoSim /\ sim_steps = 0 /\ sim_net = 0

\* Bridge.tick, lines 907-917
BattTick ==
    /\ prog = "blueProbe"
    /\ \E mcase \in MonitorCases, mon \in MonReadings, dev \in DevReadings,
          test \in BOOLEAN, set \in SUBSET BattFields :
          /\ (~test => set = {})
          /\ batt_in' = [live |-> ~test, monitor |-> mcase, ticked |-> TRUE]
          /\ batt' = IF test THEN test_override(read_bms(mcase, mon, dev), set)
                     ELSE read_bms(mcase, mon, dev)
    /\ UNCHANGED <<tm_batt, tm_cfg, sim, sim_steps, sim_net>>
    /\ UNCHANGED <<prog, intVars, lnVars, idxVars, pipeVars, rcVars, envVars, bleVars, readerVars, storeVars, genVars, csVars>>

\* outback_venus.main, lines 460-498: the simulation's values in test mode,
\* else the live branch
BattMain ==
    /\ prog = "outback_venus"
    /\ \/ \E st \in SimSettings, dt \in SimDt :
             LET r == tm_step(tm_batt, tm_cfg, st, dt)
             IN  /\ sim_steps < MaxSimSteps
                 /\ sim_steps' = sim_steps + 1
                 /\ sim_net' = step_net(tm_cfg, st)
                 /\ batt_in' = [live |-> FALSE, monitor |-> 0, ticked |-> TRUE]
                 /\ tm_batt' = r.tm
                 /\ sim' = r.out
                 /\ batt' = [V |-> From("sim", r.out.BATT_V),
                             I |-> From("sim", r.out.BATT_I),
                             P |-> From("sim", r.out.BATT_P),
                             SOC |-> From("sim", r.out.BATT_SOC)]
       \/ \E mcase \in MonitorCases, mon \in MonReadings, snap_p \in SnapBattPowers :
             /\ batt_in' = [live |-> TRUE, monitor |-> mcase, ticked |-> TRUE]
             /\ batt' = main_battery(mcase, mon, snap_p, tm_batt)
             /\ UNCHANGED <<tm_batt, sim, sim_steps, sim_net>>
    /\ UNCHANGED tm_cfg
    /\ UNCHANGED <<prog, intVars, lnVars, idxVars, pipeVars, rcVars, envVars, bleVars, readerVars, storeVars, genVars, csVars>>

\* ------------------------------------------------------ state classification
\* a classifier that takes any generator power for passthrough
gen_rule_any_state(outback_state, gen_power, eps) == gen_power > eps

\* outback_state == STATE_PASSTHROUGH and gen_power > eps
gen_rule(outback_state, gen_power, eps) ==
    outback_state = STATE_PASSTHROUGH /\ gen_power > eps

\* a classifier that tests the surplus before the direct case
classify_state_reordered(pv_ac_, l1_out, batt_p_, outback_state, gen_power, eps) ==
    LET diff == pv_ac_ - l1_out
    IN  IF gen_rule(outback_state, gen_power, eps) THEN "GEN_PASSTHROUGH"
        ELSE IF pv_ac_ <= eps /\ l1_out > eps THEN "NIGHT_BATT"
        ELSE IF diff >= eps THEN "DAY_PV_SURPLUS"
        ELSE IF Abs(batt_p_) <= eps /\ Abs(diff) <= eps THEN "DAY_PV_DIRECT"
        ELSE IF diff <= -eps /\ batt_p_ < -eps THEN "DAY_PV_PLUS_BATT"
        ELSE IF pv_ac_ > eps THEN "DAY_PV_DIRECT"
        ELSE "NIGHT_BATT"

\* classify_state, statement by statement
classify_state(pv_ac_, l1_out, batt_p_, outback_state, gen_power, eps) ==
    IF gen_rule(outback_state, gen_power, eps) THEN "GEN_PASSTHROUGH"
    ELSE IF pv_ac_ <= eps /\ l1_out > eps THEN "NIGHT_BATT"
    ELSE LET diff == pv_ac_ - l1_out
         IN  IF Abs(batt_p_) <= eps /\ Abs(diff) <= eps THEN "DAY_PV_DIRECT"
             ELSE IF diff >= eps THEN "DAY_PV_SURPLUS"
             ELSE IF diff <= -eps /\ batt_p_ < -eps THEN "DAY_PV_PLUS_BATT"
             ELSE IF pv_ac_ > eps THEN "DAY_PV_DIRECT"
             ELSE "NIGHT_BATT"

\* arguments around the thresholds, and those of the acceptance case
\* (pv_ac = 500, l1_out = 1600, batt_p = -100, gen_power = 1200)
CsPvValues == {0, 49, 50, 51, 100, 500}
CsL1Values == {0, 50, 51, 100, 150, 1600}
CsBattValues == {-100, -51, -50, 0, 50, 51}
CsGenValues == {0, 50, 51, 1200}
OutbackStates == {STATE_OFF, STATE_INVERT, STATE_CHARGE, STATE_PASSTHROUGH}

CsArgs == [pv_ac : CsPvValues, l1_out : CsL1Values, batt_p : CsBattValues,
           outback_state : OutbackStates, gen_power : CsGenValues]

\* main before the loop: nothing classified yet
CsUnused ==
    /\ cs_args = [pv_ac |-> 0, l1_out |-> 0, batt_p |-> 0,
                  outback_state |-> STATE_OFF, gen_power |-> 0]
    /\ sys_state = "unset"

\* outback_venus.main, lines 549-555: sys_state = classify_state(...)
Classify ==
    /\ \E a \in CsArgs :
          /\ cs_args' = a
          /\ sys_state' = classify_state(a.pv_ac, a.l1_out, a.batt_p, a.outback_state,
                                         a.gen_power, EpsDefault)
    /\ UNCHANGED <<prog, intVars, lnVars, idxVars, pipeVars, battVars, rcVars, envVars, bleVars, readerVars, storeVars, genVars>>

\* ------------------------------------------------------- published services
\* init_services (outback_venus) and Bridge._svc_vebus, _svc_pvinverter, GeneratorService
\* (blueProbe): the services each program publishes
Services ==
    IF prog = "outback_venus"
      THEN {"inverter", "pvinv", "grid", "l2", "l3"}
      ELSE {"vebus", "pvinv", "gen"}

\* services._bump_update_index: (cur + 1) % 256, and 1 when the stored value
\* cannot be read as an integer; blueProbe writes (x + 1) % 256 inline
bump_update_index_plain(cur) == cur + 1

_bump_update_index(cur) == IF cur \in Int THEN (cur + 1) % 256 ELSE 1

\* _common_init adds /UpdateIndex = 0 and init_services ends with one
\* set_test_mode per service, which bumps it; blueProbe adds it as 0
IdxConstructed ==
    upd_idx = [s \in Services |->
                 IF prog = "outback_venus" THEN _bump_update_index(0) ELSE 0]

\* the publishing part of one tick: main calls update() once on each of its
\* five services; Bridge.tick calls _pv_write, writes the VE.Bus block and
\* calls gen.update on either branch; every one of them bumps its index once
PublishTick ==
    /\ upd_idx' = [s \in Services |-> _bump_update_index(upd_idx[s])]
    /\ UNCHANGED <<prog, intVars, lnVars, rcVars, envVars, bleVars, readerVars, storeVars, genVars, csVars,
                   battVars, pipeVars>>

\* ------------------------------------------------------------ tick pipeline
\* A smoothed value is held exactly, as its numerator over pipe_scale.

\* a remainder that always carries the self-consumption
add_night_always(pv, dcp) == SELF_CONS_W

\* OutbackReader.SELF_CONS_W if (pv_ac_l1 < 5.0 and dcP < 0.0) else 0.0
add_night(pv, dcp) == IF pv < NightPvThreshold /\ dcp < 0 THEN SELF_CONS_W ELSE 0

\* batt_to_L1_target = max(0.0, L1_meas - pv_ac_l1 + add_night)
batt_target(l1, pv, dcp) == Max(0, l1 - pv + add_night(pv, dcp))

\* an output that jumps to its target
ramp_unlimited(prev, target, dt) == target

\* l1_ramped: max_step = RATE_W_PER_S * dt, dt in 0.1 s
ramp(prev, target, dt) ==
    LET max_step == (RATE_W_PER_S * dt) \div 10
    IN  prev + clamp_bp(target - prev, -max_step, max_step)

\* EMA_ALPHA * x + (1 - EMA_ALPHA) * y, as a numerator over scale * EmaDen
ema_mix(x, y_num, scale, a, den) == a * x * scale + (den - a) * y_num

PipeL1 == {0, 4, 5, 104, 105, 500}
PipeBatt == {-500, -100, 0, 100}
\* time since the last tick: none, 0.1 s, 1 s
PipeDt == {0, 1, 10}
MainL1 == {0, 100, 500}
MainBatt == {-500, 0, 100}
\* generator power: none, a light load below the start threshold, a full load
MainGen == {0, 100, 1200}

\* Bridge.__init__: _l1_prev = _l1_prev_ema = 0.0; main: EMA() with _y = None
PipeConstructed ==
    /\ pipe_n = 0 /\ pipe_scale = 1 /\ pipe_dt = 0
    /\ ema_l1 = 0 /\ ema_pv = 0 /\ ema_gen = 0
    /\ bt_target = 0 /\ l1_prev = 0 /\ l1_prev_ema = 0 /\ L1_multi = 0
    /\ tgt_hi = 0
    /\ pv_pub = 0 /\ l1_pub = 0
    /\ main_live = TRUE
    /\ IdxConstructed

\* Bridge.tick, lines 925-943: L1_meas, pv_ac_l1, the battery remainder
\* target, its ramp and its EMA
TickPipeline ==
    /\ prog = "blueProbe" /\ pipe_n < MaxPipeTicks
    /\ \E raw \in PipeL1, b \in PipeBatt, dt \in PipeDt :
          LET l1 == Max(0, raw)
              pv == tick_pv_ac_l1(l1, b)
              target == batt_target(l1, pv, b)
              l1_ramped == ramp(l1_prev, target, dt)
              l1_smoothed == ema_mix(l1_ramped, l1_prev_ema, pipe_scale, EmaNum, EmaDen)
          IN  /\ L1_meas' = l1 /\ dcP' = b /\ pv_ac_l1' = pv
              /\ bt_target' = target
              /\ l1_prev' = l1_ramped
              /\ l1_prev_ema' = l1_smoothed
              /\ L1_multi' = Max(0, l1_smoothed)
              /\ pipe_dt' = dt
              /\ tgt_hi' = Max(tgt_hi, target)
              \* line 959: _pv_write(pv_ac_l1, dt); line 969: /Ac/Out/L1/P
              /\ pv_pub' = pv * pipe_scale * EmaDen
              /\ l1_pub' = Max(0, l1_smoothed)
    /\ pipe_scale' = pipe_scale * EmaDen
    /\ pipe_n' = pipe_n + 1
    /\ UNCHANGED <<ema_l1, ema_pv, ema_gen, main_live>>
    /\ UNCHANGED <<prog, intVars, lnVars, idxVars, battVars, csVars, genVars, storeVars, l1_power, batt_p, pv_ac,
                   envVars, bleVars, readerVars>>

\* ------------------------------------------------------ generator controller
\* elapsed times are kept up to the longest minimum run time
GenAgeCap == GenMinRunDefault

GenPowers == { k * 20 : k \in 0..MaxGenSteps }
\* time between two updates: the 1 s cadence, or a late tick
GenDt == {10, 40}
\* Settings/Devices/OutbackSPC/Tuya/StartW, StopW, MinRunS as found in the settings
StartChoices == {GenStartDefault, 40}
StopChoices == {GenStopDefault}
MinRunChoices == {GenMinRunDefault, 20}

\* a controller that starts on any source power
gen_starts_any(power, thr) == power > 0

\* the start test: tuya_power_w >= self.start_w, gen_power_s >= gen_thr_on
gen_starts(power, thr) == power >= thr

\* a controller whose stop test forgets the minimum run time
gen_may_stop_early(ran, min_run, power, thr) == power <= thr

\* the stop test: (now - _last_change) >= min_run_s and power <= stop_w
gen_may_stop(ran, min_run, power, thr) == ran >= min_run /\ power <= thr

\* a service that reports the source power whether running or not
reported_power_raw(running, power) == power

\* /Ac/L1/Power: the source power if running, else 0
reported_power(running, power) == IF running THEN power ELSE 0

\* what the service reports: /Status/Running, /Ac/L1/Power, /Ac/L1/Voltage,
\* /Ac/L1/Current (in mA)
GenReport(running, power, voltage) ==
    LET p == reported_power(running, power)
        v == IF running THEN voltage ELSE 0
    IN  [running |-> running, power |-> p, voltage |-> v,
         current |-> IF running /\ v > 0 THEN (p * 1000) \div v ELSE 0]

\* GeneratorService.update, lines 631-645: <<running, now - _last_change>>
\* after the update, age being now - _last_change before it
service_update(running, age, passthrough, power, startw, stopw, minrun) ==
    IF ~passthrough
      THEN <<FALSE, age>>
    ELSE IF ~running
      THEN IF gen_starts(power, startw) THEN <<TRUE, 0>> ELSE <<FALSE, age>>
    ELSE IF gen_may_stop(age, minrun, power, stopw) THEN <<FALSE, 0>> ELSE <<TRUE, age>>

\* outback_venus.main, lines 538-546
main_update(running, age, outback_state, power, thr_on, thr_off, minrun) ==
    IF outback_state = STATE_PASSTHROUGH /\ gen_starts(power, thr_on)
      THEN IF ~running THEN <<TRUE, 0>> ELSE <<TRUE, age>>
    ELSE IF running /\ gen_may_stop(age, minrun, power, thr_off)
      THEN <<FALSE, 0>>
    ELSE <<running, age>>

\* GeneratorService.__init__ and the locals of main before the loop;
\* _last_change = 0.0 lies far in the past
GenConstructed ==
    /\ gen_running = FALSE /\ gen_since = GenAgeCap /\ since_start = GenAgeCap
    /\ start_w = (IF prog = "blueProbe" THEN GenStartDefault ELSE GenThrOn)
    /\ stop_w = (IF prog = "blueProbe" THEN GenStopDefault ELSE GenThrOn - GenThrGap)
    /\ min_run_s = (IF prog = "blueProbe" THEN GenMinRunDefault ELSE GenMinRuntime)
    /\ gen_pt = FALSE /\ gen_in = 0
    /\ gen_pub = GenReport(FALSE, 0, 0)
    /\ PipeConstructed
    /\ CsUnused
    /\ BattConstructed

\* Bridge.tick, lines 996-1013: with Tuya enabled the thresholds are taken
\* from the settings and the controller is updated with passthrough and the
\* Tuya power; otherwise it is updated with (False, 0.0, voltage=0.0)
GenTick ==
    /\ prog = "blueProbe"
    /\ \E tuya_enabled \in BOOLEAN, sw \in StartChoices, tw \in StopChoices,
          mr \in MinRunChoices, pt \in BOOLEAN, tuya_power \in GenPowers, dt \in GenDt :
          LET startw == IF tuya_enabled THEN sw ELSE start_w
              stopw == IF tuya_enabled THEN tw ELSE stop_w
              minrun == IF tuya_enabled THEN mr ELSE min_run_s
              passthrough == tuya_enabled /\ pt
              power == IF tuya_enabled THEN tuya_power ELSE 0
              age == Min(GenAgeCap, gen_since + dt)
              u == service_update(gen_running, age, passthrough, power, startw, stopw, minrun)
          IN  /\ start_w' = startw /\ stop_w' = stopw /\ min_run_s' = minrun
              /\ gen_pt' = passthrough /\ gen_in' = power
              /\ gen_running' = u[1]
              /\ gen_since' = u[2]
              /\ gen_pub' = GenReport(u[1], power, IF tuya_enabled THEN MainsVoltage ELSE 0)
              /\ since_start' = IF ~gen_running /\ u[1] THEN 0
                                ELSE Min(GenAgeCap, since_start + dt)
    /\ UNCHANGED <<prog, intVars, lnVars, idxVars, pipeVars, battVars, csVars, rcVars, envVars, bleVars, readerVars, storeVars>>

\* outback_venus.main, lines 538-546 and 576-582: the controller on the
\* smoothed generator power, then grid.update
GenMain ==
    /\ prog = "outback_venus"
    /\ \E outback_state \in {STATE_INVERT, STATE_PASSTHROUGH}, gen_power_s \in GenPowers,
          dt \in GenDt :
          LET age == Min(GenAgeCap, gen_since + dt)
              u == main_update(gen_running, age, outback_state, gen_power_s,
                               start_w, stop_w, min_run_s)
          IN  /\ gen_pt' = (outback_state = STATE_PASSTHROUGH) /\ gen_in' = gen_power_s
              /\ gen_running' = u[1]
              /\ gen_since' = u[2]
              /\ gen_pub' = GenReport(u[1], gen_power_s, MainsVoltage)
              /\ since_start' = IF ~gen_running /\ u[1] THEN 0
                                ELSE Min(GenAgeCap, since_start + dt)
    /\ UNCHANGED <<start_w, stop_w, min_run_s>>
    /\ UNCHANGED <<prog, intVars, lnVars, idxVars, pipeVars, battVars, csVars, rcVars, envVars, bleVars, readerVars, storeVars>>

\* the snapshots a tick of main may get from ble.snapshot(): none, or the dict
\* of a complete round
MainSnaps ==
    {NoSnap} \cup { BleSnapshotDict(MakeBlock(2 * A03Words, w), MakeBlock(2 * A11Words, w)) :
                       w \in WordValues }

\* an orchestrator that takes the state of the simulation in live mode too
main_state_any(live, sn, sim_state) == sim_state

\* outback_venus.main, lines 460-490: sim["OUTBACK_STATE"] in test mode, else
\* int(snap.get("state", STATE_INVERT)) with a snapshot, STATE_INVERT without
main_state(live, sn, sim_state) ==
    IF ~live THEN sim_state
    ELSE IF sn.some THEN sn.state
    ELSE STATE_INVERT

\* outback_venus.main, lines 460-582: the measurements (live or simulated),
\* compute_pv_ac, the EMAs (the first update takes the value itself), the
\* generator controller and classify_state on the smoothed powers and the
\* battery power, then the updates of the services.  The smoothed powers
\* are numerators over pipe_scale, and so are the thresholds they meet.
MainPipeline ==
    /\ prog = "outback_venus" /\ pipe_n < MaxPipeTicks
    /\ \E l1 \in MainL1, b \in MainBatt, sim_state \in {STATE_INVERT, STATE_PASSTHROUGH},
          g \in MainGen, live \in BOOLEAN, sn \in MainSnaps, dt \in GenDt :
          LET pv == compute_pv_ac(l1, b)
              first == pipe_n = 0
              sc == IF first THEN 1 ELSE pipe_scale * MainEmaDen
              l1s == IF first THEN l1 ELSE ema_mix(l1, ema_l1, pipe_scale, MainEmaNum, MainEmaDen)
              pvs == IF first THEN pv ELSE ema_mix(pv, ema_pv, pipe_scale, MainEmaNum, MainEmaDen)
              gs == IF first THEN g ELSE ema_mix(g, ema_gen, pipe_scale, MainEmaNum, MainEmaDen)
              st == main_state(live, sn, sim_state)
              age == Min(GenAgeCap, gen_since + dt)
              u == main_update(gen_running, age, st, gs, start_w * sc, stop_w * sc, min_run_s)
          IN  /\ (~live => sn = NoSnap)
              /\ l1_power' = l1 /\ batt_p' = b /\ pv_ac' = pv
              /\ pipe_scale' = sc
              /\ ema_l1' = l1s /\ ema_pv' = pvs /\ ema_gen' = gs
              /\ main_live' = (main_live /\ live)
              /\ gen_pt' = (st = STATE_PASSTHROUGH) /\ gen_in' = gs
              /\ gen_running' = u[1]
              /\ gen_since' = u[2]
              /\ since_start' = IF ~gen_running /\ u[1] THEN 0
                                ELSE Min(GenAgeCap, since_start + dt)
              /\ cs_args' = [pv_ac |-> pvs, l1_out |-> l1s, batt_p |-> b * sc,
                             outback_state |-> st, gen_power |-> gs]
              /\ sys_state' = classify_state(pvs, l1s, b * sc, st, gs, EpsDefault * sc)
              \* lines 565-582: inverter.update(power=l1_power_s),
              \* pvinv.update(power=pv_ac_s), which writes max(0.0, power),
              \* grid.update(...)
              /\ l1_pub' = l1s
              /\ pv_pub' = Max(0, pvs)
              /\ gen_pub' = GenReport(u[1], gs, MainsVoltage)
    /\ pipe_n' = pipe_n + 1
    /\ UNCHANGED <<start_w, stop_w, min_run_s>>
    /\ UNCHANGED <<bt_target, l1_prev, l1_prev_ema, L1_multi, pipe_dt, tgt_hi>>
    /\ UNCHANGED <<prog, intVars, lnVars, idxVars, battVars, storeVars, L1_meas, dcP, pv_ac_l1, envVars,
                   bleVars, readerVars>>

\* ------------------------------------------------- forward counters, file
\* the state file and the temporary file a save writes first
STATE_FILE == <<"state.json">>

\* a save that writes the state file in place
tmp_path_inplace(path) == path

\* tmp = path + ".tmp"
tmp_path(path) == path \o <<".tmp">>

Paths == {STATE_FILE, tmp_path(STATE_FILE)}

\* contents of a file: none, what open(tmp, "w") and an unfinished write
\* leave, or a complete JSON document
AbsentFile == [kind |-> "absent", data |-> <<>>]
PartialFile == [kind |-> "partial", data |-> <<>>]
JsonFile(d) == [kind |-> "json", data |-> d]

\* round(kwh, 6), half away from zero, on a value in W*ds
round6(e) == ((e + RoundStep \div 2) \div RoundStep) * RoundStep

\* the document PvForwardStore.save_if_needed dumps
store_doc(total, day, ymd) == JsonFile(<<round6(total), round6(day), ymd>>)

\* the document outback_venus.save_state dumps
state_doc(fwd, ymd) == JsonFile(<<fwd, ymd>>)

\* a day counter that adds the increment and then resets
rollover_add_lost(counter, changed, inc) == IF changed THEN 0 ELSE counter + inc

\* a day counter that is given the increment twice
rollover_add_twice(counter, changed, inc) == (IF changed THEN 0 ELSE counter) + inc + inc

\* the day counter after a tick: reset on a date change, then the increment
rollover_add(counter, changed, inc) == (IF changed THEN 0 ELSE counter) + inc

\* powers handed to the integration: none, forward, and a reverse flow
StorePowers == { k * 100 : k \in 0..MaxPvSteps } \cup {-100}
\* time between two ticks: the 1 s cadence, or a late tick
DtValues == {10, 80}
\* Bridge.tick: dt = max(0.0, now - _t_last) can be 0; main: dt >= 0.001
TickDts == IF prog = "blueProbe" THEN DtValues \cup {0} ELSE DtValues

\* an increment that follows the sign of the power
integrate_inc_signed(p_w, dt) == p_w * dt

\* PvForwardStore.integrate: inc_kwh is added only if inc_kwh > 0
integrate_inc(p_w, dt) == IF p_w * dt > 0 THEN p_w * dt ELSE 0

\* PvForwardStore.__init__ and main's start, no state file yet
StoreConstructed ==
    /\ date = 0 /\ n_ticks = 0 /\ spc = "tick"
    /\ total_kwh = 0 /\ day_kwh = 0 /\ day_date = 0 /\ dirty = FALSE
    /\ since_save = SaveDebounce
    /\ pv_forward_kwh = 0 /\ last_reset_ymd = 0
    /\ forward_pub = 0
    /\ files = [f \in Paths |-> AbsentFile]
    /\ save_new = AbsentFile /\ save_old = AbsentFile
    /\ force = FALSE /\ write_age = SaveDebounce
    /\ int_p = 0 /\ int_dt = 0

\* midnight passes between two ticks
DateChange ==
    /\ spc = "tick" /\ date < MaxDays
    /\ date' = date + 1
    /\ UNCHANGED <<prog, intVars, lnVars, idxVars, pipeVars, battVars, csVars, genVars, rcVars, envVars, bleVars, readerVars>>
    /\ UNCHANGED <<n_ticks, spc, total_kwh, day_kwh, day_date, dirty, since_save,
                   pv_forward_kwh, last_reset_ymd, forward_pub, files, save_new, save_old>>
    /\ UNCHANGED <<force, write_age>>

\* Bridge.tick: _pv_write (integrate, publish the total), then
\* save_if_needed(force=False) up to its decision to save
StoreTick ==
    /\ prog = "blueProbe" /\ spc = "tick" /\ n_ticks < MaxTicks
    /\ \E p_w \in StorePowers, dt \in TickDts :
          LET changed == date # day_date
              inc == p_w * dt
              total == total_kwh + integrate_inc(p_w, dt)
              day == rollover_add(day_kwh, changed, integrate_inc(p_w, dt))
              d == dirty \/ changed \/ inc > 0
              age == Min(SaveDebounce, since_save + dt)
          IN  /\ total_kwh' = total
              /\ day_kwh' = day
              /\ day_date' = date
              /\ dirty' = d
              /\ since_save' = age
              /\ forward_pub' = total
              /\ int_p' = p_w /\ int_dt' = dt
              /\ write_age' = Min(SaveDebounce, write_age + dt)
              /\ IF d /\ age >= SaveDebounce
                   THEN /\ spc' = "open"
                        /\ save_new' = store_doc(total, day, date)
                        /\ save_old' = files[STATE_FILE]
                   ELSE UNCHANGED <<spc, save_new, save_old>>
    /\ n_ticks' = n_ticks + 1
    /\ UNCHANGED <<prog, lnVars, idxVars, pipeVars, battVars, csVars, genVars, rcVars, envVars, bleVars, readerVars>>
    /\ UNCHANGED <<date, pv_forward_kwh, last_reset_ymd, files>>
    /\ UNCHANGED force

\* outback_venus.main, lines 554-616: the day reset, the integration, the
\* publication, then save_state up to its open()
MainTick ==
    /\ prog = "outback_venus" /\ spc = "tick" /\ n_ticks < MaxTicks
    /\ \E pv_ac_s \in StorePowers, dt \in TickDts :
          LET changed == last_reset_ymd # date
              fwd == rollover_add(pv_forward_kwh, changed, Max(0, pv_ac_s) * dt)
          IN  /\ pv_forward_kwh' = fwd
              /\ int_p' = pv_ac_s /\ int_dt' = dt
              /\ last_reset_ymd' = date
              /\ forward_pub' = fwd
              /\ save_new' = state_doc(fwd, date)
              /\ write_age' = Min(SaveDebounce, write_age + dt)
    /\ save_old' = files[STATE_FILE]
    /\ spc' = "open"
    /\ n_ticks' = n_ticks + 1
    /\ UNCHANGED <<prog, lnVars, idxVars, pipeVars, battVars, csVars, genVars, rcVars, envVars, bleVars, readerVars>>
    /\ UNCHANGED <<date, total_kwh, day_kwh, day_date, dirty, since_save, files>>
    /\ UNCHANGED force

\* open(tmp, "w"): the temporary file exists and is empty
SaveOpen ==
    /\ spc = "open"
    /\ files' = [files EXCEPT ![tmp_path(STATE_FILE)] = PartialFile]
    /\ spc' = "write"
    /\ UNCHANGED <<prog, intVars, lnVars, idxVars, pipeVars, battVars, csVars, genVars, rcVars, envVars, bleVars, readerVars>>
    /\ UNCHANGED <<date, n_ticks, total_kwh, day_kwh, day_date, dirty, since_save,
                   pv_forward_kwh, last_reset_ymd, forward_pub, save_new, save_old>>
    /\ UNCHANGED <<force, write_age>>

\* json.dump and the close of the with block: the temporary file is complete
SaveWrite ==
    /\ spc = "write"
    /\ files' = [files EXCEPT ![tmp_path(STATE_FILE)] = save_new]
    /\ spc' = "replace"
    /\ UNCHANGED <<prog, intVars, lnVars, idxVars, pipeVars, battVars, csVars, genVars, rcVars, envVars, bleVars, readerVars>>
    /\ UNCHANGED <<date, n_ticks, total_kwh, day_kwh, day_date, dirty, since_save,
                   pv_forward_kwh, last_reset_ymd, forward_pub, save_new, save_old>>
    /\ UNCHANGED <<force, write_age>>

\* os.replace(tmp, path), then _dirty = False and _last_save = now
SaveReplace ==
    /\ spc = "replace"
    /\ LET tmp == tmp_path(STATE_FILE)
       IN  files' = [f \in Paths |->
                        IF f = STATE_FILE THEN files[tmp]
                        ELSE IF f = tmp THEN AbsentFile
                        ELSE files[f]]
    /\ IF prog = "blueProbe"
         THEN dirty' = FALSE /\ since_save' = 0
         ELSE UNCHANGED <<dirty, since_save>>
    /\ spc' = (IF force THEN "exited" ELSE "tick")
    /\ write_age' = 0
    /\ UNCHANGED force
    /\ UNCHANGED <<prog, intVars, lnVars, idxVars, pipeVars, battVars, csVars, genVars, rcVars, envVars, bleVars, readerVars>>
    /\ UNCHANGED <<date, n_ticks, total_kwh, day_kwh, day_date,
                   pv_forward_kwh, last_reset_ymd, forward_pub, save_new, save_old>>

\* open, write or replace raises: save_if_needed logs and goes on (at
\* shutdown, the process exits), save_state lets the exception end main
SaveIOError ==
    /\ spc \in {"open", "write", "replace"}
    /\ spc' = (IF force THEN "exited_unflushed"
               ELSE IF prog = "blueProbe" THEN "tick" ELSE "raised")
    /\ UNCHANGED <<force, write_age>>
    /\ UNCHANGED <<prog, intVars, lnVars, idxVars, pipeVars, battVars, csVars, genVars, rcVars, envVars, bleVars, readerVars>>
    /\ UNCHANGED <<date, n_ticks, total_kwh, day_kwh, day_date, dirty, since_save,
                   pv_forward_kwh, last_reset_ymd, forward_pub, files, save_new, save_old>>

\* the process is killed or the power fails during a save
Crash ==
    /\ spc \in {"open", "write", "replace"}
    /\ spc' = "dead"
    /\ UNCHANGED <<prog, intVars, lnVars, idxVars, pipeVars, battVars, csVars, genVars, rcVars, envVars, bleVars, readerVars>>
    /\ UNCHANGED <<date, n_ticks, total_kwh, day_kwh, day_date, dirty, since_save,
                   pv_forward_kwh, last_reset_ymd, forward_pub, files, save_new, save_old>>
    /\ UNCHANGED <<force, write_age>>

\* The process is asked to stop between two ticks.  blueProbe.main's finally
\* clause runs save_if_needed(force=True), which skips the dirty and the
\* debounce tests; outback_venus.main leaves its loop without another save.
Shutdown ==
    /\ spc = "tick"
    /\ IF prog = "blueProbe"
         THEN /\ force' = TRUE
              /\ spc' = "open"
              /\ save_new' = store_doc(total_kwh, day_kwh, day_date)
              /\ save_old' = files[STATE_FILE]
         ELSE /\ spc' = "exited"
              /\ UNCHANGED <<force, save_new, save_old>>
    /\ UNCHANGED <<prog, intVars, lnVars, idxVars, pipeVars, battVars, csVars, genVars, rcVars, envVars, bleVars, readerVars>>
    /\ UNCHANGED <<date, n_ticks, total_kwh, day_kwh, day_date, dirty, since_save,
                   pv_forward_kwh, last_reset_ymd, forward_pub, files, write_age>>

\* SIGTERM reaches blueProbe, which installs a handler for SIGUSR1 only: the
\* interpreter is ended by the signal's default action, and neither the
\* finally clause of main nor the atexit hook runs.  (outback_venus handles
\* SIGTERM like SIGINT: Shutdown.)
Sigterm ==
    /\ prog = "blueProbe"
    /\ spc \in {"tick", "open", "write", "replace"}
    /\ spc' = "terminated"
    /\ UNCHANGED <<prog, intVars, lnVars, idxVars, pipeVars, battVars, csVars, genVars, rcVars, envVars, bleVars, readerVars>>
    /\ UNCHANGED <<date, n_ticks, total_kwh, day_kwh, day_date, dirty, since_save,
                   pv_forward_kwh, last_reset_ymd, forward_pub, files, save_new, save_old>>
    /\ UNCHANGED <<force, write_age>>

InitStore ==
    /\ prog \in Programs
    /\ RcInit
    /\ LinkConstructed
    /\ StoreConstructed
    /\ GenConstructed
    /\ TmOff

NextStore ==
    \/ DateChange
    \/ StoreTick
    \/ MainTick
    \/ SaveOpen
    \/ SaveWrite
    \/ SaveReplace
    \/ SaveIOError
    \/ Crash
    \/ Shutdown
    \/ Sigterm

SpecStore == InitStore /\ [][NextStore]_vars

\* ------------------------------------------------------ the generator runs
InitGen ==
    /\ prog \in Programs
    /\ RcInit
    /\ LinkConstructed
    /\ StoreConstructed
    /\ GenConstructed
    /\ TmOff

NextGen == GenTick \/ GenMain

SpecGen == InitGen /\ [][NextGen]_vars

\* ------------------------------------------------------ classification runs
InitClassify ==
    /\ prog = "outback_venus"
    /\ RcInit
    /\ LinkConstructed
    /\ StoreConstructed
    /\ GenConstructed
    /\ TmOff

NextClassify == Classify

SpecClassify == InitClassify /\ [][NextClassify]_vars

\* ------------------------------------------------------------ battery runs
InitBattery ==
    /\ prog \in Programs
    /\ RcInit
    /\ LinkConstructed
    /\ StoreConstructed
    /\ GenConstructed
    /\ tm_cfg \in (IF prog = "outback_venus" THEN TmConfigs
                   ELSE {[scenario |-> "off", override |-> FALSE]})

NextBattery == BattTick \/ BattMain

SpecBattery == InitBattery /\ [][NextBattery]_vars

\* ------------------------------------------------------------ pipeline runs
InitPipeline ==
    /\ prog \in Programs
    /\ RcInit
    /\ LinkConstructed
    /\ StoreConstructed
    /\ GenConstructed
    /\ TmOff

NextPipeline == MainPipeline \/ TickPipeline

SpecPipeline == InitPipeline /\ [][NextPipeline]_vars

\* ------------------------------------------------------------ publish runs
InitPublish ==
    /\ prog \in Programs
    /\ RcInit
    /\ LinkConstructed
    /\ StoreConstructed
    /\ GenConstructed
    /\ TmOff

NextPublish == PublishTick

SpecPublish == InitPublish /\ [][NextPublish]_vars

\* ------------------------------------------------------------- startup load
\* last_reset_ymd = "" of load_state's defaults: no date
EmptyYmd == -1

\* Well-formed JSON that is not the document the program writes: not an
\* object; an object without the counter fields; an object whose first
\* counter field is not a number (the others are d); an object whose second
\* counter field is not a number.
NotDictFile == [kind |-> "notdict", data |-> <<>>]
NoFieldsFile == [kind |-> "nofields", data |-> <<>>]
BadFirstFile(d) == [kind |-> "badfirst", data |-> d]
BadSecondFile(d) == [kind |-> "badsecond", data |-> d]

StoredEnergies == { k * 1000 : k \in 0..MaxStoredSteps }
StoredDates == 0..MaxDays

\* what PvForwardStore may find at its path
StoreFilesAtStart ==
    {AbsentFile, PartialFile, NotDictFile, NoFieldsFile}
    \cup { store_doc(t, d, ymd) : t \in StoredEnergies, d \in StoredEnergies, ymd \in StoredDates }
    \cup { BadFirstFile(<<d, ymd>>) : d \in StoredEnergies, ymd \in StoredDates }
    \cup { BadSecondFile(<<t, ymd>>) : t \in StoredEnergies, ymd \in StoredDates }

\* what load_state may find at its path
StateFilesAtStart ==
    {AbsentFile, PartialFile, NotDictFile, NoFieldsFile}
    \cup { state_doc(fwd, ymd) : fwd \in StoredEnergies, ymd \in StoredDates }
    \cup { BadFirstFile(<<ymd>>) : ymd \in StoredDates }

\* PvForwardStore._load: the three assignments run in order inside one try;
\* the first that raises ends the load and keeps what was assigned before.
\* The result is <<total_kwh, day_kwh, day_date>>, today the constructor's date.
store_load(f, today) ==
    CASE f.kind = "json" -> <<f.data[1], f.data[2], f.data[3]>>
      [] f.kind = "badsecond" -> <<f.data[1], 0, today>>
      [] OTHER -> <<0, 0, today>>

\* load_state and main, lines 431-434: <<started, pv_forward_kwh, last_reset_ymd>>;
\* only open() and json.load() are inside the try
state_load(f) ==
    CASE f.kind \in {"absent", "partial", "nofields"} -> <<TRUE, 0, EmptyYmd>>
      [] f.kind = "json" -> <<TRUE, f.data[1], f.data[2]>>
      [] OTHER -> <<FALSE, 0, EmptyYmd>>

\* the programs before they have read their state file
StoreUnloaded ==
    /\ date \in StoredDates /\ n_ticks = 0 /\ spc = "start"
    /\ total_kwh = 0 /\ day_kwh = 0 /\ day_date = date /\ dirty = FALSE
    /\ since_save = SaveDebounce
    /\ pv_forward_kwh = 0 /\ last_reset_ymd = EmptyYmd
    /\ forward_pub = 0
    /\ files \in [Paths -> StoreFilesAtStart \cup StateFilesAtStart]
    /\ files[STATE_FILE] \in (IF prog = "blueProbe" THEN StoreFilesAtStart ELSE StateFilesAtStart)
    /\ files[tmp_path(STATE_FILE)] = AbsentFile
    /\ save_new = AbsentFile /\ save_old = AbsentFile
    /\ force = FALSE /\ write_age = SaveDebounce
    /\ int_p = 0 /\ int_dt = 0

\* PvForwardStore.__init__: _load()
LoadStore ==
    /\ prog = "blueProbe" /\ spc = "start"
    /\ LET l == store_load(files[STATE_FILE], day_date)
       IN  /\ total_kwh' = l[1]
           /\ day_kwh' = l[2]
           /\ day_date' = l[3]
    /\ spc' = "tick"
    /\ UNCHANGED <<prog, intVars, lnVars, idxVars, pipeVars, battVars, csVars, genVars, rcVars, envVars, bleVars, readerVars>>
    /\ UNCHANGED <<date, n_ticks, dirty, since_save, pv_forward_kwh, last_reset_ymd,
                   forward_pub, files, save_new, save_old>>
    /\ UNCHANGED <<force, write_age>>

\* outback_venus.main, lines 308 and 431-438: load_state(), the counters
\* taken from it, the day reset at startup
LoadState ==
    /\ prog = "outback_venus" /\ spc = "start"
    /\ LET l == state_load(files[STATE_FILE])
       IN  IF l[1]
             THEN /\ pv_forward_kwh' = IF l[3] # date THEN 0 ELSE l[2]
                  /\ last_reset_ymd' = date
                  /\ spc' = "tick"
             ELSE /\ spc' = "dead"
                  /\ UNCHANGED <<pv_forward_kwh, last_reset_ymd>>
    /\ UNCHANGED <<prog, intVars, lnVars, idxVars, pipeVars, battVars, csVars, genVars, rcVars, envVars, bleVars, readerVars>>
    /\ UNCHANGED <<date, n_ticks, total_kwh, day_kwh, day_date, dirty, since_save,
                   forward_pub, files, save_new, save_old>>
    /\ UNCHANGED <<force, write_age>>

InitLoad ==
    /\ prog \in Programs
    /\ RcInit
    /\ LinkConstructed
    /\ StoreUnloaded
    /\ GenConstructed
    /\ TmOff

NextLoad == LoadStore \/ LoadState

SpecLoad == InitLoad /\ [][NextLoad]_vars

\* ------------------------------------------------------------ the link's runs
InitLink ==
    /\ prog \in Programs
    /\ RcInit
    /\ EnvStart
    /\ min_interval_s = MinIntervalDefault
    /\ backoff_max_s \in BackoffMaxChoices
    /\ StoreConstructed
    /\ GenConstructed
    /\ TmOff
    /\ IF prog = "outback_venus"
         THEN BleConstructed /\ ble_backend \in {"bleak", "bluepy", "none"} /\ ReaderUnused
         ELSE BleConstructed /\ ble_backend = "bleak" /\ ReaderConstructed

NextLink ==
    \/ SnapshotThrottled
    \/ SnapshotBegin
    \/ SnapshotEnd
    \/ WorkerReturns
    \/ ReaderThrottled
    \/ ReaderRound
    \/ LoopSleep

SpecLink == InitLink /\ [][NextLink]_vars

\* ------------------------------------------------------------ reconciliation
InitReconcile ==
    /\ prog \in Programs
    /\ RcInit
    /\ LinkConstructed
    /\ StoreConstructed
    /\ GenConstructed
    /\ TmOff

\* outback_venus.main, live branch: l1_power from the snapshot (>= 0),
\* batt_p from the battery monitor, pv_ac = compute_pv_ac(l1_power, batt_p)
MainReconcile ==
    /\ prog = "outback_venus"
    /\ \E l1 \in L1Values, b \in BattValues :
          /\ l1_power' = l1
          /\ batt_p' = b
          /\ pv_ac' = compute_pv_ac(l1, b)
    /\ UNCHANGED <<prog, intVars, lnVars, idxVars, pipeVars, battVars, csVars, genVars, storeVars, L1_meas, dcP, pv_ac_l1, envVars, bleVars, readerVars>>

\* Bridge.tick: L1_meas = max(0, acP_active), dcP from _read_bms,
\* pv_ac_l1 by the inline formula
TickReconcile ==
    /\ prog = "blueProbe"
    /\ \E raw \in L1Values, b \in BattValues :
          /\ L1_meas' = Max(0, raw)
          /\ dcP' = b
          /\ pv_ac_l1' = tick_pv_ac_l1(Max(0, raw), b)
    /\ UNCHANGED <<prog, intVars, lnVars, idxVars, pipeVars, battVars, csVars, genVars, storeVars, l1_power, batt_p, pv_ac, envVars, bleVars, readerVars>>

NextReconcile == MainReconcile \/ TickReconcile

SpecReconcile == InitReconcile /\ [][NextReconcile]_vars

\* ---------------------------------------------------------------- claims
\* C1: for every measured L1 power l1 >= 0 and every signed battery power,
\* the solar-attributed power of both reconciliation formulas lies in 0..l1.
PvAcBounded ==
    /\ prog = "outback_venus" => (l1_power >= 0 => (0 <= pv_ac /\ pv_ac <= l1_power))
    /\ prog = "blueProbe" => (L1_meas >= 0 => (0 <= pv_ac_l1 /\ pv_ac_l1 <= L1_meas))

\* the battery discharges more than the whole L1 load and the result is cut at 0
PvAcBoundedWitness ==
    /\ prog = "outback_venus"
    /\ l1_power = 400 /\ batt_p = -800 /\ pv_ac = 0

\* C2: compute_pv_ac(l1, b) is l1 when b >= 0, l1 - |b| when the battery
\* discharges by |b| <= l1, and 0 when it discharges by |b| >= l1; with the
\* acceptance cases (500,0), (800,-300), (300,+200), (300,+100), (400,-400).
PvAcExact ==
    prog = "outback_venus" =>
        /\ batt_p >= 0 => pv_ac = l1_power
        /\ (batt_p < 0 /\ -batt_p <= l1_power) => pv_ac = l1_power + batt_p
        /\ (batt_p < 0 /\ -batt_p >= l1_power) => pv_ac = 0
        /\ (l1_power = 500 /\ batt_p = 0) => pv_ac = 500
        /\ (l1_power = 800 /\ batt_p = -300) => pv_ac = 500
        /\ (l1_power = 300 /\ batt_p = 200) => pv_ac = 300
        /\ (l1_power = 300 /\ batt_p = 100) => pv_ac = 300
        /\ (l1_power = 400 /\ batt_p = -400) => pv_ac = 0

\* the acceptance case of a partly discharging battery has been computed
PvAcExactWitness ==
    /\ prog = "outback_venus"
    /\ l1_power = 800 /\ batt_p = -300 /\ pv_ac = 500

\* C3: a round is atomic: a failed round of BleOutbackClient returns no
\* snapshot, and no measurement field of OutbackReader ever holds a value
\* that a failed round wrote.
RoundAtomic ==
    /\ snap.some => ble_last_status = "ok"
    /\ r_tainted = {}

\* C4: at most one connect/read exchange with the device is in flight at any
\* time: the round being run by snapshot()/read() plus the device calls still
\* running in threads that earlier rounds started.
OneRoundInFlight ==
    workers + (IF lpc = "inflight" THEN 1 ELSE 0) <= 1

BackoffLadder ==
    LET k == streak
        base == Min(Ladder[Min(k - 1, 4) + 1], backoff_max_s)
    IN  /\ (prog = "outback_venus" /\ lpc = "sleep" /\ ble_last_status \in {"timeout", "error"})
           => (ble_next_in - base) \in 0..JitterMax
        /\ (prog = "blueProbe" /\ lpc = "sleep" /\ r_last_status = "exc")
           => (r_next_in - base) \in 0..JitterMax

\* C7: right after a successful round consecutive failures are 0 and the next
\* attempt is min_interval (plus at most 0.2 s of jitter) away, and right
\* after the first failed round that follows a success the next attempt is
\* the first ladder step (plus at most 0.2 s of jitter) away.
SuccessResetsLadder ==
    LET first == Min(Ladder[1], backoff_max_s)
    IN  /\ (prog = "outback_venus" /\ lpc = "sleep" /\ ble_last_status = "ok")
           => (ble_consec_fails = 0 /\ (ble_next_in - min_interval_s) \in 0..JitterMax)
        /\ (prog = "blueProbe" /\ lpc = "sleep" /\ r_last_status = "ok")
           => (r_consec_fails = 0 /\ (r_next_in - min_interval_s) \in 0..JitterMax)
        /\ (prog = "outback_venus" /\ lpc = "sleep" /\ ble_ok > 0 /\ streak = 1
              /\ ble_last_status \in {"timeout", "error"})
           => (ble_next_in - first) \in 0..JitterMax
        /\ (prog = "blueProbe" /\ lpc = "sleep" /\ r_ok_count > 0 /\ streak = 1
              /\ r_last_status = "exc")
           => (r_next_in - first) \in 0..JitterMax

\* C8: the forward energy published on the solar service never decreases,
\* whatever the step, ticks that follow a date change included.
ForwardTotalMonotone ==
    [][forward_pub' >= forward_pub]_vars

\* C9: the day counter changes only in a tick; in a tick that finds the
\* stored date current it does not decrease; a tick that finds another date
\* adopts that date and leaves in the day counter this tick's increment alone.
DayCounterRollover ==
    [][ /\ (n_ticks' = n_ticks)
           => UNCHANGED <<day_kwh, day_date, pv_forward_kwh, last_reset_ymd>>
        /\ (n_ticks' # n_ticks /\ prog = "blueProbe")
           => /\ day_date' = date
              /\ total_kwh' >= total_kwh
              /\ IF day_date = date
                   THEN day_kwh' - day_kwh = total_kwh' - total_kwh
                   ELSE day_kwh' = total_kwh' - total_kwh
        /\ (n_ticks' # n_ticks /\ prog = "outback_venus")
           => /\ last_reset_ymd' = date
              /\ IF last_reset_ymd = date
                   THEN pv_forward_kwh' >= pv_forward_kwh
                   ELSE \E p_w \in StorePowers, dt \in DtValues :
                           pv_forward_kwh' = p_w * dt
      ]_vars

\* the second tick ran after midnight: the day counter holds its 1000 W*ds,
\* the total also the 16000 W*ds of the day before
DayCounterRolloverWitness ==
    /\ prog = "blueProbe" /\ n_ticks = 2
    /\ day_date = 1 /\ day_kwh = 1000 /\ total_kwh = 17000

\* C10: at every step of a save, a failed or interrupted one included, the
\* state file is complete: it holds what it held when the save began, or
\* what the save writes.
AtomicReplace ==
    /\ files[STATE_FILE].kind # "partial"
    /\ files[STATE_FILE] \in {save_old, save_new}

\* the process died after the temporary file was written and before the
\* rename: the state file still holds the earlier document
AtomicReplaceWitness ==
    /\ spc = "dead"
    /\ save_new.kind = "json" /\ save_old.kind = "json" /\ save_old # save_new
    /\ files[tmp_path(STATE_FILE)] = save_new
    /\ files[STATE_FILE] = save_old

\* C11: startup never fails on the state file, and after a startup that
\* found the file missing, unreadable, or not the document with numeric
\* counter fields, every forward counter is zero.
LoadZeroOnCorrupt ==
    /\ spc # "dead"
    /\ (spc = "tick" /\ files[STATE_FILE].kind # "json")
       => (total_kwh = 0 /\ day_kwh = 0 /\ pv_forward_kwh = 0)

\* C12: a write of the state file by a save that is not forced comes at
\* least 15 s after the previous write of it, and a forced save goes on to
\* write whatever the dirty flag and the time since the last write.
DebouncedWrites ==
    [][ /\ (spc = "replace" /\ files' # files /\ ~force)
           => write_age >= SaveDebounce
        /\ (force' /\ ~force) => spc' = "open"
      ]_vars

\* C13: after an update made with passthrough inactive the generator is
\* Off, whatever the source power and the time since it started.
OffWithoutPassthrough ==
    ~gen_pt => ~gen_running

\* C14: the generator goes from Off to Running only in an update with
\* passthrough active and source power at or above the start threshold, and
\* that update records the transition time.
StartsOnlyAboveThreshold ==
    [][ (~gen_running /\ gen_running')
        => (gen_pt' /\ gen_in' >= start_w' /\ gen_since' = 0) ]_vars

\* the generator has just started on a source power equal to the threshold
StartsOnlyAboveThresholdWitness ==
    /\ gen_running /\ gen_since = 0 /\ gen_pt
    /\ gen_in = start_w /\ start_w = GenStartDefault

\* C15: with passthrough active a Running generator goes to Off only in an
\* update where at least min_run_s has passed since it started and the
\* source power is at or below the stop threshold.
NoStopBeforeMinRun ==
    [][ (gen_running /\ ~gen_running' /\ gen_pt')
        => (since_start' >= min_run_s' /\ gen_in' <= stop_w') ]_vars

\* the generator has just been stopped by the hysteresis rule, with
\* passthrough active, after running for the default minimum of 8 s
NoStopBeforeMinRunWitness ==
    /\ ~gen_running /\ gen_pt /\ gen_since = 0
    /\ since_start = GenMinRunDefault /\ min_run_s = GenMinRunDefault
    /\ gen_in <= stop_w

\* C16: the start threshold is strictly greater than the stop threshold.
HysteresisGap ==
    start_w > stop_w

\* C17: a generator that is not Running is reported with power, current and
\* voltage 0.
ZeroWhenStopped ==
    ~gen_running => (gen_pub.power = 0 /\ gen_pub.current = 0 /\ gen_pub.voltage = 0
                     /\ ~gen_pub.running)

\* an update with passthrough active and 100 W of source power left the
\* generator Off
ZeroWhenStoppedWitness ==
    ~gen_running /\ gen_pt /\ gen_in = 100 /\ gen_pub.power = 0

\* C18: classify_state returns GEN_PASSTHROUGH exactly when the inverter is
\* in passthrough and the generator power exceeds eps, whatever pv_ac,
\* l1_out and the battery power are.
GenPassthroughIff ==
    sys_state # "unset"
    => ((sys_state = "GEN_PASSTHROUGH")
        <=> (cs_args.outback_state = STATE_PASSTHROUGH /\ cs_args.gen_power > EpsDefault))

\* the acceptance case: pv_ac = 500, l1_out = 1600, battery = -100,
\* passthrough, generator = 1200
GenPassthroughIffWitness ==
    /\ cs_args = [pv_ac |-> 500, l1_out |-> 1600, batt_p |-> -100,
                  outback_state |-> STATE_PASSTHROUGH, gen_power |-> 1200]
    /\ sys_state = "GEN_PASSTHROUGH"

\* the ordered rules after the generator rule, as <<condition, regime>>
\* pairs; the last pair always matches
RegimeRules(a) ==
    LET eps == EpsDefault
        diff == a.pv_ac - a.l1_out
    IN  << <<a.pv_ac <= eps /\ a.l1_out > eps, "NIGHT_BATT">>,
           <<Abs(a.batt_p) <= eps /\ Abs(diff) <= eps, "DAY_PV_DIRECT">>,
           <<diff >= eps, "DAY_PV_SURPLUS">>,
           <<diff <= -eps /\ a.batt_p < -eps, "DAY_PV_PLUS_BATT">>,
           <<a.pv_ac > eps, "DAY_PV_DIRECT">>,
           <<TRUE, "NIGHT_BATT">> >>

FirstMatch(rules) ==
    rules[CHOOSE i \in 1..Len(rules) :
              rules[i][1] /\ \A j \in 1..(i - 1) : ~rules[j][1]][2]

Regimes == {"GEN_PASSTHROUGH", "NIGHT_BATT", "DAY_PV_DIRECT", "DAY_PV_SURPLUS",
            "DAY_PV_PLUS_BATT"}

\* C19: when the generator rule does not apply, classify_state returns the
\* regime of the first matching rule of the ordered list (night, direct,
\* surplus, PV plus battery, fallback); its result is always one of the five
\* regimes.
FirstMatchingRule ==
    sys_state # "unset"
    => /\ sys_state \in Regimes
       /\ sys_state # "GEN_PASSTHROUGH" => sys_state = FirstMatch(RegimeRules(cs_args))

\* pv_ac - l1_out = eps with a quiet battery: the direct rule and the
\* surplus rule both match, and the direct rule comes first
FirstMatchingRuleWitness ==
    /\ cs_args.pv_ac = 100 /\ cs_args.l1_out = 50 /\ cs_args.batt_p = 0
    /\ cs_args.outback_state = STATE_INVERT
    /\ sys_state = "DAY_PV_DIRECT"

\* C20: a failure inside a tick, here a failure to write the state file,
\* does not end the orchestrator: no exception leaves the loop.
TickFailureContained ==
    spc # "raised"

\* C21: a failed write of the state file in an unforced save leaves the
\* process running at its next tick with the in-memory counters and the
\* published total unchanged, and the state still marked as unsaved.
WriteErrorKeepsCounters ==
    [][ (/\ spc \in {"open", "write", "replace"} /\ ~force
         /\ files' = files
         /\ spc' \notin {"open", "write", "replace", "dead"})
        => (/\ spc' = "tick"
            /\ UNCHANGED <<total_kwh, day_kwh, pv_forward_kwh, forward_pub>>
            /\ (prog = "blueProbe" => dirty')) ]_vars

\* C22: once the process has stopped on a termination signal, the counters
\* a restart would read from the state file are the in-memory counters at
\* exit (as the final flush writes them).
FinalFlushOnSignal ==
    (spc \in {"exited", "terminated"})
    => IF prog = "blueProbe"
         THEN LET l == store_load(files[STATE_FILE], day_date)
              IN  l[1] = round6(total_kwh) /\ l[2] = round6(day_kwh)
         ELSE state_load(files[STATE_FILE])[2] = pv_forward_kwh

\* C23: in a live tick voltage, current and power all come from one source,
\* the battery monitor if all of it could be read and otherwise the device's
\* DC measurement, and the state of charge is from that source too (or unset
\* where the device has none).
OneBatterySource ==
    (batt_in.ticked /\ batt_in.live)
    => LET src == IF batt_in.monitor = 5 THEN "monitor" ELSE "device"
       IN  /\ batt.V.src = src /\ batt.I.src = src /\ batt.P.src = src
           /\ batt.SOC.src \in {src, "none"}
           /\ (src = "monitor" => batt.SOC.src = "monitor")

\* C24: in the night scenario every step of the test mode reports a PV
\* power of 0, whatever loads are configured.
NightPvZero ==
    (tm_cfg.scenario = "night" /\ sim_steps > 0) => sim.PV_AC = 0

\* C25 as stated: in any tick where the battery is not discharging and
\* l1 > eps, the solar share is l1, the battery remainder target is 0 and
\* the regime is DAY_PV_DIRECT.
DaytimeChargingAlways ==
    /\ (prog = "outback_venus" /\ pipe_n > 0 /\ batt_p >= 0 /\ l1_power > EpsDefault)
       => (pv_ac = l1_power /\ sys_state = "DAY_PV_DIRECT")
    /\ (prog = "blueProbe" /\ pipe_n > 0 /\ dcP >= 0 /\ L1_meas > EpsDefault)
       => (pv_ac_l1 = L1_meas /\ bt_target = 0)

\* C25: in any tick where the battery is not discharging and l1 > eps, the
\* solar share is l1 and the battery remainder target is 0; the regime is
\* DAY_PV_DIRECT if moreover the smoothed powers given to the classifier
\* are the tick's own (as in the first tick) and the generator rule does
\* not apply.
DaytimeCharging ==
    /\ (prog = "outback_venus" /\ pipe_n > 0 /\ batt_p >= 0 /\ l1_power > EpsDefault)
       => /\ pv_ac = l1_power
          /\ (/\ ema_pv = pv_ac * pipe_scale /\ ema_l1 = l1_power * pipe_scale
              /\ ~(cs_args.outback_state = STATE_PASSTHROUGH
                   /\ ema_gen > EpsDefault * pipe_scale))
             => sys_state = "DAY_PV_DIRECT"
    /\ (prog = "blueProbe" /\ pipe_n > 0 /\ dcP >= 0 /\ L1_meas > EpsDefault)
       => (pv_ac_l1 = L1_meas /\ bt_target = 0)

\* the first tick with L1 = 500 W and the battery charging at 100 W
DaytimeChargingWitness ==
    /\ prog = "outback_venus" /\ pipe_n = 1
    /\ l1_power = 500 /\ batt_p = 100 /\ pv_ac = 500
    /\ cs_args.outback_state = STATE_INVERT
    /\ sys_state = "DAY_PV_DIRECT"

\* C26: every published service's /UpdateIndex is always an integer in
\* 0..255, and each publish advances it by exactly 1 modulo 256, wrapping
\* from 255 to 0.
UpdateIndexWraps ==
    /\ [](\A s \in Services : upd_idx[s] \in 0..255)
    /\ [][ \A s \in Services :
             /\ upd_idx'[s] = (upd_idx[s] + 1) % 256
             /\ (upd_idx[s] = 255 => upd_idx'[s] = 0)
             /\ (upd_idx[s] < 255 => upd_idx'[s] = upd_idx[s] + 1) ]_idxVars

\* the services of outback_venus start at 1, so 0 is reached only by the
\* wrap after 255 publishes
UpdateIndexWrapsWitness ==
    /\ prog = "outback_venus"
    /\ \A s \in Services : upd_idx[s] = 0

\* C27: after a hard failure the link disconnects and attempts a reconnect
\* before the next round; after a soft failure it keeps the connection as it
\* is, unless this is at least the second soft failure in a row, in which
\* case it disconnects and reconnects.
ReconnectPolicy ==
    /\ (ln_fail = "hard" => ln_act = "redo")
    /\ (ln_fail = "soft" => ln_act = (IF ln_softs >= 2 THEN "redo" ELSE "keep"))

\* C28: every poll makes at most one connection attempt and at most two
\* characteristic reads, each cut off by its own hard timeout, and then
\* returns a snapshot or Unavailable; no failure path adds device calls that
\* nothing bounds.
PollBoundedCalls ==
    /\ ln_conns <= 1
    /\ ln_reads <= 2
    /\ ln_untimed = 0

\* C29: the battery remainder target of a tick is max(0, l1 - pv_to_ac_l1 +
\* night), where night is the self-consumption constant exactly when
\* pv_to_ac_l1 < 5 W and the battery is discharging, and 0 otherwise; when
\* night is 0, pv_to_ac_l1 + remainder = l1 and the remainder does not exceed
\* the discharge power.
BatteryRemainderTarget ==
    (prog = "blueProbe" /\ pipe_n > 0)
    => LET night == IF pv_ac_l1 < NightPvThreshold /\ dcP < 0 THEN SELF_CONS_W ELSE 0
       IN  /\ bt_target = Max(0, L1_meas - pv_ac_l1 + night)
           /\ (night = 0 => /\ pv_ac_l1 + bt_target = L1_meas
                            /\ bt_target <= Max(0, -dcP))

\* a night tick: 4 W of PV share, 100 W of discharge, 35 W added
BatteryRemainderTargetWitness ==
    /\ prog = "blueProbe" /\ pipe_n > 0
    /\ L1_meas = 104 /\ dcP = -100 /\ pv_ac_l1 = 4
    /\ bt_target = 100 + SELF_CONS_W

\* C30: the battery-facing L1 output is rate-limited, then smoothed: from one
\* tick to the next the ramped value moves towards the target by at most
\* 700 W/s * dt, the reported value is the EMA (alpha 0.35) of the ramped
\* value, and it is never negative and never above the largest target seen
\* so far (the range of the targets and the initial 0).
RampThenSmooth ==
    /\ [](prog = "blueProbe" => /\ 0 <= L1_multi
                                /\ L1_multi <= tgt_hi * pipe_scale)
    /\ [][ (prog = "blueProbe" /\ pipe_n' = pipe_n + 1)
           => /\ 10 * Abs(l1_prev' - l1_prev) <= RATE_W_PER_S * pipe_dt'
              /\ Min(l1_prev, bt_target') <= l1_prev'
              /\ l1_prev' <= Max(l1_prev, bt_target')
              /\ (10 * Abs(bt_target' - l1_prev) <= RATE_W_PER_S * pipe_dt'
                    => l1_prev' = bt_target')
              /\ EmaDen * L1_multi' = EmaNum * l1_prev' * pipe_scale'
                                       + (EmaDen - EmaNum) * L1_multi * EmaDen ]_vars

\* the first tick of a 535 W target after 0.1 s: ramped to 70 W, reported
\* 0.35 * 70 W
RampThenSmoothWitness ==
    /\ prog = "blueProbe" /\ pipe_n = 1 /\ pipe_dt = 1
    /\ bt_target = 535 /\ l1_prev = 70
    /\ L1_multi * EmaDen = EmaNum * 70 * pipe_scale

\* C31: the solar power published in a tick equals the pv_to_ac_l1 value
\* reconciled from that tick's inputs, with no rate limit and no smoothing
\* lag.
SolarPublishedAtOnce ==
    (pipe_n > 0)
    => pv_pub = pipe_scale * (IF prog = "blueProbe" THEN pv_ac_l1 ELSE pv_ac)

\* C32: only positive power contributes to the forward counters: an
\* integration step with power <= 0 or dt = 0 leaves the lifetime and day
\* totals unchanged apart from a pending day rollover, and no step subtracts
\* energy.
OnlyPositivePower ==
    [][ (n_ticks' = n_ticks + 1)
        => LET idle == int_p' <= 0 \/ int_dt' = 0
               day0 == IF day_date = date THEN day_kwh ELSE 0
               fwd0 == IF last_reset_ymd = date THEN pv_forward_kwh ELSE 0
           IN  IF prog = "blueProbe"
                 THEN /\ total_kwh' >= total_kwh /\ day_kwh' >= day0
                      /\ (idle => total_kwh' = total_kwh /\ day_kwh' = day0)
                      /\ (~idle => total_kwh' > total_kwh /\ day_kwh' > day0)
                 ELSE /\ pv_forward_kwh' >= fwd0
                      /\ (idle => pv_forward_kwh' = fwd0)
                      /\ (~idle => pv_forward_kwh' > fwd0) ]_vars

\* a reverse flow of 100 W was integrated over 1 s after 1000 W*ds had been
\* counted: the totals are what they were
OnlyPositivePowerWitness ==
    /\ prog = "blueProbe" /\ n_ticks = 2
    /\ int_p = -100 /\ int_dt = 10
    /\ total_kwh = 1000 /\ day_kwh = 1000

\* C33: the test mode's automatic battery model follows the sign convention
\* positive = charging: BATT_P < 0 when the loads exceed PV plus generator
\* supply, BATT_P > 0 when the supply exceeds the loads, and the state of
\* charge does not rise while BATT_P < 0 nor fall while BATT_P > 0.
AutoBatterySign ==
    /\ []((sim_steps > 0 /\ ~tm_cfg.override)
          => /\ (sim_net > 0 => sim.BATT_P < 0)
             /\ (sim_net < 0 => sim.BATT_P > 0))
    /\ [][ (sim_steps' = sim_steps + 1 /\ ~tm_cfg.override)
           => /\ (sim'.BATT_P < 0 => tm_batt'.SOC <= tm_batt.SOC)
              /\ (sim'.BATT_P > 0 => tm_batt'.SOC >= tm_batt.SOC) ]_vars

\* C34: the classification does not chatter: when one of pv_ac, l1_out and
\* batt_p moves by less than eps from one tick to the next (and back) while
\* every other input stays as it is, the regime of the two ticks is the
\* same, so that the regimes of successive ticks do not alternate.
NoChatter ==
    [][ LET a == cs_args
            b == cs_args'
            moved == {f \in {"pv_ac", "l1_out", "batt_p"} : a[f] # b[f]}
        IN  (/\ sys_state # "unset"
             /\ a.outback_state = b.outback_state /\ a.gen_power = b.gen_power
             /\ Cardinality(moved) = 1
             /\ \A f \in moved : Abs(a[f] - b[f]) < EpsDefault)
            => sys_state' = sys_state ]_vars

\* ------------------------------------------------------------ decoded words
\* the fields of r_meas that are one decoded word each
WordFields == {"acV", "acF", "acS_apparent", "acP_active", "loadPct", "dcV", "dcI", "pvV", "pvP"}

\* Bridge._read_bms without a battery monitor: dcP = dcV * dcI on the reader's
\* dcV (0.01 V) and dcI (A), in W
device_dcP(meas) == (meas.dcV \div 100) * meas.dcI

ConsecCountsFailedRounds ==
    /\ [](prog = "blueProbe" =>
              /\ r_consec_fails = streak
              /\ r_ok_count + r_fail_count = r_round_id)
    /\ [](prog = "outback_venus" => ble_consec_fails = streak)
    /\ [][ (prog = "outback_venus" /\ streak' # streak)
              => ble_ok' + ble_fail' = ble_ok + ble_fail + 1 ]_vars

\* C36: while outback_venus has run live in every tick (TestMode off), the
\* inverter state given to the generator controller and to classify_state is
\* STATE_INVERT, with or without a snapshot, so whatever the generator power
\* the generator is not reported running and the regime is not
\* GEN_PASSTHROUGH.
LiveStateIsInvert ==
    (prog = "outback_venus" /\ pipe_n > 0 /\ main_live)
    => /\ cs_args.outback_state = STATE_INVERT
       /\ ~gen_pt
       /\ ~gen_running
       /\ gen_pub = GenReport(FALSE, 0, 0)
       /\ sys_state # "GEN_PASSTHROUGH"

\* two live ticks with the generator power far above the start threshold
LiveStateIsInvertWitness ==
    /\ prog = "outback_venus" /\ main_live /\ pipe_n = 2
    /\ gen_in = 1200 * pipe_scale
    /\ gen_in >= start_w * pipe_scale
    /\ ~gen_running

\* C38: in outback_venus the published solar power (the smoothed pv_ac, as
\* the PV inverter service writes it) is never negative and never above the
\* published smoothed L1 power of the inverter, for non-negative L1 readings
\* and any battery power.
PublishedSolarWithinL1 ==
    (prog = "outback_venus")
    => /\ 0 <= pv_pub
       /\ pv_pub <= l1_pub

\* three ticks: the battery carried part of the load, and the smoothed solar
\* power lies strictly between 0 and the smoothed L1 power
PublishedSolarWithinL1Witness ==
    /\ prog = "outback_venus" /\ pipe_n = 3
    /\ batt_p < 0 /\ l1_power > 0
    /\ 0 < pv_pub /\ pv_pub < l1_pub

\* C39: PvForwardStore.integrate adds one and the same increment to the
\* lifetime total and to the day total (the day total first reset when the
\* date changed): without a date change the difference total - day stays as
\* it was, and from counters that start at zero the day total never exceeds
\* the lifetime total.
SameIncrementBothTotals ==
    /\ [](prog = "blueProbe" => (0 <= day_kwh /\ day_kwh <= total_kwh))
    /\ [][ (prog = "blueProbe" /\ n_ticks' = n_ticks + 1)
              => LET day0 == IF day_date = date THEN day_kwh ELSE 0
                 IN  /\ total_kwh' - total_kwh = day_kwh' - day0
                     /\ (day_date = date
                           => total_kwh' - day_kwh' = total_kwh - day_kwh) ]_vars

\* after a date change and a further integration the day total is positive
\* and below the lifetime total
SameIncrementBothTotalsWitness ==
    /\ prog = "blueProbe" /\ n_ticks >= 2
    /\ day_date = 1 /\ date = 1
    /\ int_p > 0 /\ int_dt > 0
    /\ 0 < day_kwh /\ day_kwh < total_kwh

====
